---- MODULE Spec2Model ----
(***************************************************************************)
(* Model of the form-field mapping core of smells-like-job-spirit:         *)
(* FormDetector (backend/app/services/form_detector.py), the               *)
(* /api/generate-mappings endpoint (backend/app/main.py), and the learning *)
(* engine: Learning (backend/app/services/learning_service.py) over the    *)
(* table field_mappings of Configuration (.../config_service.py), and the  *)
(* feedback buffers of Learning (backend/app/services/llm_service.py).     *)
(*                                                                         *)
(* Text is a sequence of one-character strings, so that regular-expression *)
(* search, strip(), lower(), split() and join() are computed character by  *)
(* character as the Python code computes them.  Confidences are kept in    *)
(* hundredths (0.8 is 80, 1.0 is 100).                                     *)
(***************************************************************************)
EXTENDS Integers, Sequences, FiniteSets, TLC

VARIABLES
    pc,            \* "ready": a call is about to be made; "done": it has ended
    op,            \* the operation the caller invokes
    cv_data,       \* argument: the structured record
    form_fields,   \* argument: the batch of field descriptors
    cv_path,       \* argument of a direct _extract_cv_value call
    transform_function, \* argument of a direct _extract_cv_value call
    field,         \* argument of a direct _classify_single_field call
    detector,      \* the FormDetector's tables: patterns and transforms
    first,         \* what the first of two identical calls returned
    ret,           \* what the call returned (or that it raised)
    store,         \* the rows of table field_mappings, in insertion order
    feedback_data, \* Learning.feedback_data: domain -> list of feedback
    call,          \* the arguments of the call made last, when they are not those above
    learned_mappings, \* what get_learned_mappings returned to that call
    requests,      \* the writes in flight: each one's arguments and position
    write_lock,    \* the request that holds the database's write lock, or 0
    max_feedback_size, \* the capacity of a domain's feedback buffer
    feedback_store \* ConfigService.feedback_store: domain -> persisted feedback

\* the variables of the detector and those of the learning engine
detector_vars == <<cv_data, form_fields, cv_path, transform_function, field, detector, first>>
engine_vars == <<max_feedback_size, feedback_store>>
learning_vars == <<store, feedback_data, call, learned_mappings, requests, write_lock,
                   engine_vars>>

vars == <<pc, op, ret, detector_vars, learning_vars>>

-----------------------------------------------------------------------------
(* Characters and Python's str helpers *)

LowerLetters == <<"a","b","c","d","e","f","g","h","i","j","k","l","m","n","o","p","q","r","s","t","u","v","w","x","y","z">>
UpperLetters == <<"A","B","C","D","E","F","G","H","I","J","K","L","M","N","O","P","Q","R","S","T","U","V","W","X","Y","Z">>
Digits == <<"0","1","2","3","4","5","6","7","8","9">>

Range(s) == {s[i] : i \in 1..Len(s)}

\* str.lower() on one character
LowerMap == [c \in Range(UpperLetters) |->
               LowerLetters[CHOOSE i \in 1..Len(UpperLetters) : UpperLetters[i] = c]]
LowerChar(c) == IF c \in DOMAIN LowerMap THEN LowerMap[c] ELSE c

\* str.lower()
Lower(s) == [i \in 1..Len(s) |-> LowerChar(s[i])]

\* the characters the regex class \w matches
WordChars == Range(LowerLetters) \cup Range(UpperLetters) \cup Range(Digits) \cup {"_"}

\* the characters str.strip() and str.split() treat as whitespace
WhiteChars == {" ", "\t", "\n", "\r"}

RECURSIVE LStrip(_)
LStrip(s) == IF s # <<>> /\ Head(s) \in WhiteChars THEN LStrip(Tail(s)) ELSE s

RECURSIVE RStrip(_)
RStrip(s) == IF s # <<>> /\ s[Len(s)] \in WhiteChars
             THEN RStrip(SubSeq(s, 1, Len(s) - 1)) ELSE s

\* str.strip()
Strip(s) == RStrip(LStrip(s))

\* sep.join(parts)
RECURSIVE Join(_, _)
Join(sep, parts) ==
    IF parts = <<>> THEN <<>>
    ELSE IF Len(parts) = 1 THEN parts[1]
    ELSE parts[1] \o sep \o Join(sep, Tail(parts))

\* filter(None, parts): the non-empty strings, in order
RECURSIVE FilterNonEmpty(_)
FilterNonEmpty(parts) ==
    IF parts = <<>> THEN <<>>
    ELSE IF Head(parts) = <<>> THEN FilterNonEmpty(Tail(parts))
    ELSE <<Head(parts)>> \o FilterNonEmpty(Tail(parts))

\* dict.get(key, default)
Get(d, key, default) == IF key \in DOMAIN d THEN d[key] ELSE default

-----------------------------------------------------------------------------
(* Regular expressions, as re.compile(..., re.I) and Pattern.search use them.
   A pattern is the sequence of its top-level alternatives; an alternative is
   a sequence of atoms.  Matching is Python's backtracking search: leftmost
   start, alternatives in order, quantifiers greedy. *)

Atom(t, c, q, sub) == [t |-> t, c |-> c, q |-> q, sub |-> sub]
Lit(s) == [i \in 1..Len(s) |-> Atom("lit", s[i], "one", <<>>)]   \* abc
OptLit(c) == <<Atom("lit", c, "opt", <<>>)>>                     \* c?
Dot == <<Atom("any", "", "one", <<>>)>>                          \* .
DotOpt == <<Atom("any", "", "opt", <<>>)>>                       \* .?
DotStar == <<Atom("any", "", "star", <<>>)>>                     \* .*
Bol == <<Atom("bol", "", "one", <<>>)>>                          \* ^
Eol == <<Atom("eol", "", "one", <<>>)>>                          \* $
NotAhead(sub) == <<Atom("nla", "", "one", sub)>>                 \* (?!sub)

\* does atom a accept the character ch (re.I: case is ignored; . is not \n)
Accepts(a, ch) ==
    IF a.t = "lit" THEN LowerChar(ch) = LowerChar(a.c)
    ELSE a.t = "any" /\ ch # "\n"

\* number of characters from pos on that . accepts in a row
RECURSIVE DotRun(_, _)
DotRun(text, pos) ==
    IF pos <= Len(text) /\ text[pos] # "\n" THEN 1 + DotRun(text, pos + 1) ELSE 0

\* a if the match a exists (a position, not 0), else b
OrElse(a, b) == IF a # 0 THEN a ELSE b

\* End position (index after the last matched character) of the preferred
\* match of atoms[k..] at pos, or 0 when there is none.
RECURSIVE MatchFrom(_, _, _, _)
RECURSIVE StarFrom(_, _, _, _, _)
MatchFrom(atoms, k, text, pos) ==
    IF k > Len(atoms) THEN pos
    ELSE LET a == atoms[k]
             take == IF pos <= Len(text) /\ Accepts(a, text[pos])
                     THEN MatchFrom(atoms, k + 1, text, pos + 1) ELSE 0
         IN  CASE a.t = "bol" ->
                    IF pos = 1 THEN MatchFrom(atoms, k + 1, text, pos) ELSE 0
               [] a.t = "eol" ->
                    IF pos = Len(text) + 1
                       \/ (pos = Len(text) /\ text[pos] = "\n")
                    THEN MatchFrom(atoms, k + 1, text, pos) ELSE 0
               [] a.t = "nla" ->
                    IF MatchFrom(a.sub, 1, text, pos) # 0 THEN 0
                    ELSE MatchFrom(atoms, k + 1, text, pos)
               [] a.q = "one" -> take
               [] a.q = "opt" -> OrElse(take, MatchFrom(atoms, k + 1, text, pos))
               [] OTHER -> StarFrom(atoms, k, text, pos, DotRun(text, pos))
\* greedy .*: the longest run first, then shorter ones
StarFrom(atoms, k, text, pos, n) ==
    IF n < 0 THEN 0
    ELSE OrElse(MatchFrom(atoms, k + 1, text, pos + n),
                StarFrom(atoms, k, text, pos, n - 1))

\* the first alternative, in order, that matches at pos: its end, or 0
RECURSIVE AltFrom(_, _, _, _)
AltFrom(pattern, j, text, pos) ==
    IF j > Len(pattern) THEN 0
    ELSE OrElse(MatchFrom(pattern[j], 1, text, pos),
                AltFrom(pattern, j + 1, text, pos))

\* the match <<pos, e>> if e is an end position, else the later match
Found(pos, e, later) == IF e # 0 THEN <<pos, e>> ELSE later

\* Pattern.search(text): <<start, end>> of the leftmost match, or <<0, 0>>
RECURSIVE SearchFrom(_, _, _)
SearchFrom(pattern, text, pos) ==
    IF pos > Len(text) + 1 THEN <<0, 0>>
    ELSE Found(pos, AltFrom(pattern, 1, text, pos), SearchFrom(pattern, text, pos + 1))

Search(pattern, text) == SearchFrom(pattern, text, 1)

\* match.group(0)
Group0(text, m) == SubSeq(text, m[1], m[2] - 1)

\* \b at position i: exactly one of text[i-1], text[i] is a word character
IsWordAt(text, i) == i >= 1 /\ i <= Len(text) /\ text[i] \in WordChars
Boundary(text, i) == IsWordAt(text, i - 1) # IsWordAt(text, i)

\* re.search(r'\b' + re.escape(g) + r'\b', text, re.I)
WordSearch(g, text) ==
    \E p \in 1..(Len(text) - Len(g) + 1) :
        /\ Lower(SubSeq(text, p, p + Len(g) - 1)) = Lower(g)
        /\ Boundary(text, p)
        /\ Boundary(text, p + Len(g))

-----------------------------------------------------------------------------
(* FormDetector._initialize_patterns: the pattern families, in declaration
   order (a Python dict keeps insertion order). *)

Family(path, patterns) == [path |-> path, patterns |-> patterns]

classification_patterns == <<
    Family(<<"p","e","r","s","o","n","a","l","_","i","n","f","o",".","f","u","l","l","_","n","a","m","e">>, <<
        << Lit(<<"f","u","l">>) \o OptLit("l") \o Dot \o Lit(<<"n","a","m","e">>),
           Lit(<<"n","a","m","e">>) \o NotAhead(DotStar \o Lit(<<"e","m","a","i","l">>))
                        \o NotAhead(DotStar \o Lit(<<"u","s","e","r">>)) >>,
        << Bol \o Lit(<<"n","a","m","e">>) \o Eol >>,
        << Lit(<<"a","p","p","l","i","c","a","n","t">>) \o DotOpt \o Lit(<<"n","a","m","e">>) >> >>),
    Family(<<"p","e","r","s","o","n","a","l","_","i","n","f","o",".","f","i","r","s","t","_","n","a","m","e">>, <<
        << Lit(<<"f","i","r","s","t">>) \o DotOpt \o Lit(<<"n","a","m","e">>),
           Lit(<<"f","n","a","m","e">>),
           Lit(<<"g","i","v","e","n">>) \o DotOpt \o Lit(<<"n","a","m","e">>) >>,
        << Bol \o Lit(<<"f","i","r","s","t","n","a","m","e">>) \o Eol >> >>),
    Family(<<"p","e","r","s","o","n","a","l","_","i","n","f","o",".","l","a","s","t","_","n","a","m","e">>, <<
        << Lit(<<"l","a","s","t">>) \o DotOpt \o Lit(<<"n","a","m","e">>),
           Lit(<<"l","n","a","m","e">>),
           Lit(<<"s","u","r","n","a","m","e">>),
           Lit(<<"f","a","m","i","l","y">>) \o DotOpt \o Lit(<<"n","a","m","e">>) >>,
        << Bol \o Lit(<<"l","a","s","t","n","a","m","e">>) \o Eol >> >>),
    Family(<<"p","e","r","s","o","n","a","l","_","i","n","f","o",".","e","m","a","i","l">>, <<
        << Lit(<<"e","m","a","i","l">>),
           Lit(<<"e">>) \o DotOpt \o Lit(<<"m","a","i","l">>) >>,
        << Bol \o Lit(<<"e","m","a","i","l">>) \o Eol >> >>),
    Family(<<"p","e","r","s","o","n","a","l","_","i","n","f","o",".","p","h","o","n","e">>, <<
        << Lit(<<"p","h","o","n","e">>), Lit(<<"c","e","l">>), Lit(<<"t","e","l">>), Lit(<<"m","o","b","i","l","e">>),
           Lit(<<"c","e","l","l">>), Lit(<<"c","o","n","t","a","c","t">>) >>,
        << Lit(<<"p","h","o","n","e">>) \o DotOpt \o Lit(<<"n","u","m","b","e","r">>) >> >>),
    Family(<<"p","e","r","s","o","n","a","l","_","i","n","f","o",".","a","d","d","r","e","s","s">>, <<
        << Lit(<<"a","d","d","r","e","s","s">>),
           Lit(<<"a","d","d","r">>) \o NotAhead(Lit(<<"e","s","s">>)) >>,
        << Lit(<<"s","t","r","e","e","t">>), Lit(<<"l","o","c","a","t","i","o","n">>) >> >>),
    Family(<<"p","e","r","s","o","n","a","l","_","i","n","f","o",".","c","o","u","n","t","r","y">>, <<
        << Lit(<<"c","o","u","n","t","r","y">>), Lit(<<"n","a","t","i","o","n">>) >>,
        << Bol \o Lit(<<"c","o","u","n","t","r","y">>) \o Eol >> >>),
    Family(<<"e","x","p","e","r","i","e","n","c","e","[","0","]",".","c","o","m","p","a","n","y">>, <<
        << Lit(<<"c","u","r","r","e","n","t">>) \o DotOpt \o Lit(<<"c","o","m","p","a","n","y">>) >>,
        << Lit(<<"c","o","m","p","a","n","y">>), Lit(<<"o","r","g","a","n","i","z","a","t","i","o","n">>), Lit(<<"e","m","p","l","o","y","e","r">>),
           Lit(<<"w","o","r","k","p","l","a","c","e">>) >> >>),
    Family(<<"e","x","p","e","r","i","e","n","c","e","[","0","]",".","j","o","b","_","t","i","t","l","e">>, <<
        << Lit(<<"p","o","s","i","t","i","o","n">>), Lit(<<"t","i","t","l","e">>),
           Lit(<<"j","o","b">>) \o DotOpt \o Lit(<<"t","i","t","l","e">>),
           Lit(<<"r","o","l","e">>),
           Lit(<<"c","u","r","r","e","n","t">>) \o DotOpt \o Lit(<<"r","o","l","e">>) >>,
        << Bol \o Lit(<<"t","i","t","l","e">>) \o Eol >> >>),
    Family(<<"e","d","u","c","a","t","i","o","n","[","0","]",".","i","n","s","t","i","t","u","t","i","o","n">>, <<
        << Lit(<<"s","c","h","o","o","l">>), Lit(<<"u","n","i","v","e","r","s","i","t","y">>), Lit(<<"c","o","l","l","e","g","e">>),
           Lit(<<"i","n","s","t","i","t","u","t","i","o","n">>) >>,
        << Lit(<<"e","d","u","c","a","t","i","o","n">>) \o DotStar \o Lit(<<"i","n","s","t","i","t","u","t","i","o","n">>) >> >>),
    Family(<<"e","d","u","c","a","t","i","o","n","[","0","]",".","d","e","g","r","e","e">>, <<
        << Bol \o Lit(<<"d","e","g","r","e","e">>) \o Eol >> >>),
    Family(<<"s","k","i","l","l","s","_","t","e","x","t">>, <<
        << Lit(<<"s","k","i","l","l","s">>), Lit(<<"s","k","i","l","l">>), Lit(<<"c","o","m","p","e","t","e","n","c">>), Lit(<<"a","b","i","l","i","t","i","e","s">>) >>,
        << Lit(<<"t","e","c","h","n","i","c","a","l">>) \o DotOpt \o Lit(<<"s","k","i","l","l","s">>) >> >>),
    Family(<<"c","o","v","e","r","_","l","e","t","t","e","r">>, <<
        << Lit(<<"c","o","v","e","r">>) \o DotOpt \o Lit(<<"l","e","t","t","e","r">>),
           Lit(<<"m","o","t","i","v","a","t","i","o","n">>),
           Lit(<<"w","h","y">>) \o DotStar \o Lit(<<"i","n","t","e","r","e","s","t","e","d">>) >>,
        << Lit(<<"m","e","s","s","a","g","e">>),
           Lit(<<"a","d","d","i","t","i","o","n","a","l">>) \o DotStar \o Lit(<<"i","n","f","o">>) >> >>)
>>

\* the keys of classification_patterns
PatternPaths == {classification_patterns[i].path : i \in DOMAIN classification_patterns}

\* FormDetector._initialize_transforms: classification key -> transform name
common_transforms ==
    ( <<"s","k","i","l","l","s","_","t","e","x","t">> :> <<"j","o","i","n","_","s","k","i","l","l","s">> )
    @@ ( <<"e","x","p","e","r","i","e","n","c","e","_","s","u","m","m","a","r","y">> :> <<"f","o","r","m","a","t","_","e","x","p","e","r","i","e","n","c","e">> )
    @@ ( <<"e","d","u","c","a","t","i","o","n","_","s","u","m","m","a","r","y">> :> <<"f","o","r","m","a","t","_","e","d","u","c","a","t","i","o","n">> )

\* Python's None where a string may stand: a sequence no text equals, since
\* every element of a text is a single character
None == <<"None">>

-----------------------------------------------------------------------------
(* FormDetector._calculate_pattern_confidence *)

BaseConfidence == 80
WordConfidence == 90
FullConfidence == 100

Max(a, b) == IF a >= b THEN a ELSE b

\* the confidence of a match m of one pattern (0 when there is no match)
MatchConfidence(text, m) ==
    IF m[1] = 0 THEN 0
    ELSE IF Lower(Group0(text, m)) = Lower(Strip(text)) THEN FullConfidence
    ELSE IF WordSearch(Group0(text, m), text) THEN WordConfidence
    ELSE BaseConfidence

PatternConfidence(text, pattern) == MatchConfidence(text, Search(pattern, text))

RECURSIVE MaxOverPatterns(_, _, _, _)
MaxOverPatterns(text, patterns, i, max_confidence) ==
    IF i > Len(patterns) THEN max_confidence
    ELSE MaxOverPatterns(text, patterns, i + 1,
                         Max(max_confidence, PatternConfidence(text, patterns[i])))

_calculate_pattern_confidence(text, patterns) ==
    IF text = <<>> THEN 0
    ELSE MaxOverPatterns(text, patterns, 1, 0)

-----------------------------------------------------------------------------
(* FormDetector._classify_single_field *)

\* the FormField classify_fields builds from a field descriptor (a dict)
FormField(f) ==
    [name |-> Get(f, "name", <<>>),
     field_type |-> Get(f, "type", <<"t","e","x","t">>),
     attributes |-> f]

\* Better with >= for >: among equals the last-declared family wins
Better_LastWins(best, classification, confidence) ==
    IF confidence >= best.confidence /\ confidence > 0
    THEN [classification |-> classification, confidence |-> confidence]
    ELSE best

\* one step of the scan: the family replaces the best so far only when its
\* confidence is strictly greater
Better(best, classification, confidence) ==
    IF confidence > best.confidence
    THEN [classification |-> classification, confidence |-> confidence]
    ELSE best

\* the scan of the families in declaration order
RECURSIVE BestFamily(_, _, _)
BestFamily(text, i, best) ==
    IF i > Len(classification_patterns) THEN best
    ELSE BestFamily(text, i + 1,
            Better(best, classification_patterns[i].path,
                   _calculate_pattern_confidence(text, classification_patterns[i].patterns)))

\* the search string: the non-empty text attributes joined by one space
combined_text(field_obj) ==
    Join(<<" ">>, FilterNonEmpty(<<
        field_obj.name,
        Get(field_obj.attributes, "id", <<>>),
        Get(field_obj.attributes, "placeholder", <<>>),
        Get(field_obj.attributes, "label", <<>>),
        Get(field_obj.attributes, "className", <<>>),
        Get(field_obj.attributes, "class", <<>>) >>))

_classify_single_field(field_obj) ==
    BestFamily(combined_text(field_obj), 1, [classification |-> None, confidence |-> 0])

-----------------------------------------------------------------------------
(* Record values (what json gives Python): None, str, int, list, dict.
   Every node has the same shape; a list keeps its elements in kids, a dict
   its keys in keys and the value of keys[i] in kids[i]. *)

PyNone == [kind |-> "none", text |-> <<>>, num |-> 0, keys |-> <<>>, kids |-> <<>>]
PyStr(s) == [kind |-> "str", text |-> s, num |-> 0, keys |-> <<>>, kids |-> <<>>]
PyInt(n) == [kind |-> "int", text |-> <<>>, num |-> n, keys |-> <<>>, kids |-> <<>>]
PyList(kids) == [kind |-> "list", text |-> <<>>, num |-> 0, keys |-> <<>>, kids |-> kids]
PyDict(keys, kids) == [kind |-> "dict", text |-> <<>>, num |-> 0, keys |-> keys, kids |-> kids]

\* bool(v)
Truthy(v) ==
    CASE v.kind = "none" -> FALSE
      [] v.kind = "str" -> v.text # <<>>
      [] v.kind = "int" -> v.num # 0
      [] v.kind = "list" -> v.kids # <<>>
      [] OTHER -> v.keys # <<>>

\* str(n) for an int
RECURSIVE NatStr(_)
NatStr(n) == IF n < 10 THEN <<Digits[n + 1]>> ELSE NatStr(n \div 10) \o <<Digits[(n % 10) + 1]>>
IntStr(n) == IF n < 0 THEN <<"-">> \o NatStr(0 - n) ELSE NatStr(n)

\* repr(v); a str is quoted as Python quotes a string free of quotes,
\* backslashes and control characters
RECURSIVE Repr(_)
RECURSIVE ReprItems(_, _)
Repr(v) ==
    CASE v.kind = "none" -> <<"N","o","n","e">>
      [] v.kind = "str" -> <<"'">> \o v.text \o <<"'">>
      [] v.kind = "int" -> IntStr(v.num)
      [] v.kind = "list" -> <<"[">> \o Join(<<","," ">>, ReprItems(v, 1)) \o <<"]">>
      [] OTHER -> <<"{">> \o Join(<<","," ">>, ReprItems(v, 1)) \o <<"}">>
ReprItems(v, i) ==
    IF i > Len(v.kids) THEN <<>>
    ELSE << IF v.kind = "dict"
            THEN <<"'">> \o v.keys[i] \o <<"'",":"," ">> \o Repr(v.kids[i])
            ELSE Repr(v.kids[i]) >> \o ReprItems(v, i + 1)

\* str(v)
Str(v) == IF v.kind = "str" THEN v.text ELSE Repr(v)

\* position of key in a dict's keys, or 0
KeyIndex(d, key) ==
    IF \E i \in 1..Len(d.keys) : d.keys[i] = key
    THEN CHOOSE i \in 1..Len(d.keys) : d.keys[i] = key
    ELSE 0

\* How a Python call ends: it returns a value, or raises an exception.
Return(v) == [exc |-> "", value |-> v]
Raise(e) == [exc |-> e, value |-> None]

-----------------------------------------------------------------------------
(* Registered transforms (self.transforms) *)

\* ', '.join(items) for a truthy items: a list of str, a str (joins its
\* characters), a dict (joins its keys); anything else raises TypeError
JoinItems(items) ==
    CASE items.kind = "list" ->
            IF \A i \in 1..Len(items.kids) : items.kids[i].kind = "str"
            THEN Return(Join(<<","," ">>, [i \in 1..Len(items.kids) |-> items.kids[i].text]))
            ELSE Raise("TypeError")
      [] items.kind = "str" ->
            Return(Join(<<","," ">>, [i \in 1..Len(items.text) |-> <<items.text[i]>>]))
      [] items.kind = "dict" -> Return(Join(<<","," ">>, items.keys))
      [] OTHER -> Raise("TypeError")

\* skill_lists.append(joined) ahead of what the rest of the loop appends,
\* unless either raised
Prepend(joined, rest) ==
    IF joined.exc # "" THEN joined
    ELSE IF rest.exc # "" THEN rest
    ELSE Return(<<joined.value>> \o rest.value)

\* category.get('items', [])
Items(category) ==
    IF KeyIndex(category, <<"i","t","e","m","s">>) = 0 THEN PyList(<<>>)
    ELSE category.kids[KeyIndex(category, <<"i","t","e","m","s">>)]

\* the loop of _join_skills over data[i..]: the list of per-category strings
RECURSIVE SkillLists(_, _)
SkillLists(data, i) ==
    IF i > Len(data.kids) THEN Return(<<>>)
    ELSE IF data.kids[i].kind = "dict" /\ Truthy(Items(data.kids[i]))
    THEN Prepend(JoinItems(Items(data.kids[i])), SkillLists(data, i + 1))
    ELSE SkillLists(data, i + 1)

\* ', '.join(skill_lists)
JoinLists(lists) == IF lists.exc # "" THEN lists ELSE Return(Join(<<","," ">>, lists.value))

_join_skills(data) ==
    IF data.kind # "list" THEN Return(<<>>) ELSE JoinLists(SkillLists(data, 1))

\* data.get(key, ''), formatted by an f-string
FormatGet(data, key) ==
    LET k == KeyIndex(data, key)
    IN  IF k = 0 THEN <<>> ELSE Str(data.kids[k])

_format_experience(data) ==
    IF data.kind # "dict" THEN Return(<<>>)
    ELSE Return(FormatGet(data, <<"j","o","b","_","t","i","t","l","e">>) \o <<" ","a","t"," ">> \o FormatGet(data, <<"c","o","m","p","a","n","y">>))

_format_education(data) ==
    IF data.kind # "dict" THEN Return(<<>>)
    ELSE Return(FormatGet(data, <<"d","e","g","r","e","e">>) \o <<" ","-"," ">> \o FormatGet(data, <<"i","n","s","t","i","t","u","t","i","o","n">>))

\* the keys of self.transforms
TransformNames == {<<"j","o","i","n","_","s","k","i","l","l","s">>, <<"f","o","r","m","a","t","_","e","x","p","e","r","i","e","n","c","e">>, <<"f","o","r","m","a","t","_","e","d","u","c","a","t","i","o","n">>}

\* Swallow that lets the exception through
Swallow_Propagates(r) == r

\* try: return transform_function(data) / except Exception: return ''
Swallow(r) == IF r.exc # "" THEN Return(<<>>) ELSE r

_apply_transform(data, transform_name) ==
    CASE transform_name = <<"j","o","i","n","_","s","k","i","l","l","s">> -> Swallow(_join_skills(data))
      [] transform_name = <<"f","o","r","m","a","t","_","e","x","p","e","r","i","e","n","c","e">> -> Swallow(_format_experience(data))
      [] transform_name = <<"f","o","r","m","a","t","_","e","d","u","c","a","t","i","o","n">> -> Swallow(_format_education(data))
      [] OTHER -> Return(IF Truthy(data) THEN Str(data) ELSE <<>>)

-----------------------------------------------------------------------------
(* FormDetector._extract_cv_value *)

IsDigit(c) == c \in Range(Digits)

\* length of the run of digits of s that starts at i
RECURSIVE DigitRun(_, _)
DigitRun(s, i) == IF i <= Len(s) /\ IsDigit(s[i]) THEN 1 + DigitRun(s, i + 1) ELSE 0

\* re.sub(r'\[(\d+)\]', r'.\1', s), from position i on
RECURSIVE SubBrackets(_, _)
SubBrackets(s, i) ==
    IF i > Len(s) THEN <<>>
    ELSE LET n == DigitRun(s, i + 1)
         IN  IF s[i] = "[" /\ n > 0 /\ i + n + 1 <= Len(s) /\ s[i + n + 1] = "]"
             THEN <<".">> \o SubSeq(s, i + 1, i + n) \o SubBrackets(s, i + n + 2)
             ELSE <<s[i]>> \o SubBrackets(s, i + 1)

\* s.split('.'), from position i on, cur being the part read so far
RECURSIVE SplitDots(_, _, _)
SplitDots(s, i, cur) ==
    IF i > Len(s) THEN <<cur>>
    ELSE IF s[i] = "." THEN <<cur>> \o SplitDots(s, i + 1, <<>>)
    ELSE SplitDots(s, i + 1, Append(cur, s[i]))

\* part.isdigit()
IsDigitStr(part) == part # <<>> /\ \A i \in 1..Len(part) : IsDigit(part[i])

\* int(part)
DigitValue(c) == (CHOOSE i \in 1..Len(Digits) : Digits[i] = c) - 1
RECURSIVE ParseInt(_)
ParseInt(part) ==
    IF part = <<>> THEN 0
    ELSE 10 * ParseInt(SubSeq(part, 1, Len(part) - 1)) + DigitValue(part[Len(part)])

\* current_data[int(part)]
Subscript(current_data, n) ==
    CASE current_data.kind = "list" ->
            IF n < Len(current_data.kids) THEN Return(current_data.kids[n + 1])
            ELSE Raise("IndexError")
      [] current_data.kind = "str" ->
            IF n < Len(current_data.text) THEN Return(PyStr(<<current_data.text[n + 1]>>))
            ELSE Raise("IndexError")
      [] current_data.kind = "dict" -> Raise("KeyError")   \* the keys are strings
      [] OTHER -> Raise("TypeError")

\* current_data.get(part)
GetAttr(current_data, part) ==
    IF current_data.kind = "dict"
    THEN LET k == KeyIndex(current_data, part)
         IN  Return(IF k = 0 THEN PyNone ELSE current_data.kids[k])
    ELSE Raise("AttributeError")

\* the exceptions _extract_cv_value catches
Caught == {"KeyError", "IndexError", "TypeError"}

\* one segment of the walk
Step(current_data, part) ==
    IF IsDigitStr(part) THEN Subscript(current_data, ParseInt(part))
    ELSE GetAttr(current_data, part)

\* the walk over path_parts[i..] and what follows it
RECURSIVE Walk(_, _, _, _)
RECURSIVE Walked(_, _, _, _)
Walk(current_data, path_parts, i, transform) ==
    IF i > Len(path_parts)
    THEN IF transform # None /\ transform # <<>> /\ current_data.kind \in {"list", "dict"}
         THEN _apply_transform(current_data, transform)
         ELSE Return(IF Truthy(current_data) THEN Str(current_data) ELSE None)
    ELSE Walked(Step(current_data, path_parts[i]), path_parts, i, transform)
\* after segment i: the exception goes up, None is returned at once, or the
\* walk goes on
Walked(step, path_parts, i, transform) ==
    IF step.exc # "" THEN step
    ELSE IF step.value.kind = "none" THEN Return(None)
    ELSE Walk(step.value, path_parts, i + 1, transform)

\* except (KeyError, IndexError, TypeError): return None
Catch(r) == IF r.exc \in Caught THEN Return(None) ELSE r

\* ("[" in cv_path is a TypeError when cv_path is None)
_extract_cv_value(data, path, transform) ==
    Catch(IF path = None THEN Raise("TypeError")
          ELSE Walk(data,
                    SplitDots(IF "[" \in Range(path) THEN SubBrackets(path, 1) ELSE path, 1, <<>>),
                    1, transform))
-----------------------------------------------------------------------------
(* Inputs *)

\* FormFieldData: name and type are required
Validates(f) == "name" \in DOMAIN f /\ "type" \in DOMAIN f

\* field.dict(): the declared attributes with their defaults; anything else
\* the client sent is dropped (required, a bool no code reads, is left out)
FieldDict(f) ==
    [name |-> f.name, type |-> f.type,
     label |-> Get(f, "label", <<>>),
     placeholder |-> Get(f, "placeholder", <<>>),
     id |-> Get(f, "id", <<>>)]

MaxFields == 2

\* field descriptors as a form scanner sends them
Field_email == [name |-> <<"e","m","a","i","l">>, type |-> <<"e","m","a","i","l">>, label |-> <<"E","m","a","i","l"," ","A","d","d","r","e","s","s">>]
Field_email_bare == [name |-> <<"e","m","a","i","l">>, type |-> <<"t","e","x","t">>]
Field_company == [name |-> <<"c","o","m","p","a","n","y">>, label |-> <<"C","u","r","r","e","n","t"," ","C","o","m","p","a","n","y">>]
Field_skills == [name |-> <<"s","k","i","l","l","s">>, type |-> <<"t","e","x","t">>]
Field_color == [name |-> <<"f","a","v","o","r","i","t","e","_","c","o","l","o","r">>, type |-> <<"t","e","x","t">>]
Field_anon_email == [name |-> <<>>, type |-> <<"e","m","a","i","l">>, id |-> <<"e","m","a","i","l">>]
Field_anon_other == [type |-> <<"t","e","x","t">>, label |-> <<"z","z","z">>]
Field_q1_email == [name |-> <<"q","1">>, type |-> <<"t","e","x","t">>, label |-> <<"E","m","a","i","l">>]
Field_q1_hobby == [name |-> <<"q","1">>, placeholder |-> <<"H","o","b","b","y">>]
Field_q1_emails == [name |-> <<"q","1">>, type |-> <<"t","e","x","t">>, label |-> <<"E","m","a","i","l","s">>]
Field_contact == [name |-> <<"c","o","n","t","a","c","t">>, type |-> <<"t","e","x","t">>, label |-> <<"e","m","a","i","l">>]
Field_username == [name |-> <<"u","s","e","r","n","a","m","e">>, type |-> <<"t","e","x","t">>, class |-> <<"i","n","p","u","t">>]

Fields ==
    {Field_email, Field_email_bare, Field_company, Field_skills, Field_color,
     Field_anon_email, Field_anon_other, Field_q1_email, Field_q1_hobby,
     Field_q1_emails, Field_contact, Field_username}

Batches == UNION {[1..n -> Fields] : n \in 0..MaxFields}

\* a field with no text at all; the fields a direct _classify_single_field
\* call is given
Field_blank == [name |-> <<>>, type |-> <<"t","e","x","t">>]
SingleFields == Fields \cup {Field_blank}

SkillsList ==
    PyList(<< PyDict(<<<<"i","t","e","m","s">>>>, <<PyList(<<PyStr(<<"P","y","t","h","o","n">>), PyStr(<<"G","o">>)>>)>>),
              PyDict(<<<<"i","t","e","m","s">>>>, <<PyList(<<PyStr(<<"S","Q","L">>)>>)>>) >>)

\* a well-formed record
Record_full ==
    PyDict(<<<<"p","e","r","s","o","n","a","l","_","i","n","f","o">>, <<"e","x","p","e","r","i","e","n","c","e">>, <<"s","k","i","l","l","s">>>>,
           << PyDict(<<<<"f","u","l","l","_","n","a","m","e">>, <<"e","m","a","i","l">>>>, <<PyStr(<<"J","o","h","n"," ","D","o","e">>), PyStr(<<"j","o","h","n","@","x",".","c","o","m">>)>>),
              PyList(<<PyDict(<<<<"j","o","b","_","t","i","t","l","e">>, <<"c","o","m","p","a","n","y">>>>, <<PyStr(<<"D","e","v">>), PyStr(<<"A","c","m","e">>)>>)>>),
              SkillsList >>)
Record_empty == PyDict(<<>>, <<>>)
\* an empty value, an empty list
Record_blank ==
    PyDict(<<<<"p","e","r","s","o","n","a","l","_","i","n","f","o">>, <<"e","x","p","e","r","i","e","n","c","e">>>>,
           << PyDict(<<<<"e","m","a","i","l">>>>, <<PyStr(<<>>)>>), PyList(<<>>) >>)
\* a null value, a mapping where a list is expected
Record_null ==
    PyDict(<<<<"p","e","r","s","o","n","a","l","_","i","n","f","o">>, <<"e","x","p","e","r","i","e","n","c","e">>>>,
           << PyDict(<<<<"e","m","a","i","l">>>>, <<PyNone>>),
              PyDict(<<<<"c","o","m","p","a","n","y">>>>, <<PyStr(<<"A","c","m","e">>)>>) >>)
\* a list where a mapping is expected
Record_listinfo ==
    PyDict(<<<<"p","e","r","s","o","n","a","l","_","i","n","f","o">>, <<"e","x","p","e","r","i","e","n","c","e">>>>,
           << PyList(<<PyStr(<<"x">>)>>),
              PyList(<<PyDict(<<<<"c","o","m","p","a","n","y">>>>, <<PyStr(<<"A","c","m","e">>)>>)>>) >>)
\* a string where a list is expected
Record_strexp ==
    PyDict(<<<<"p","e","r","s","o","n","a","l","_","i","n","f","o">>, <<"e","x","p","e","r","i","e","n","c","e">>>>,
           << PyDict(<<<<"e","m","a","i","l">>>>, <<PyStr(<<"j","o","h","n","@","x",".","c","o","m">>)>>), PyStr(<<"a","b","c">>) >>)
\* a number where a list is expected, a number as a value
Record_numbers ==
    PyDict(<<<<"p","e","r","s","o","n","a","l","_","i","n","f","o">>, <<"e","x","p","e","r","i","e","n","c","e">>>>,
           << PyDict(<<<<"e","m","a","i","l">>>>, <<PyInt(7)>>), PyInt(5) >>)
\* the skills list stored under the virtual key itself
Record_virtual == PyDict(<<<<"s","k","i","l","l","s","_","t","e","x","t">>>>, <<SkillsList>>)
\* a skills category whose items are not strings
Record_badskills ==
    PyDict(<<<<"s","k","i","l","l","s","_","t","e","x","t">>>>,
           << PyList(<<PyDict(<<<<"i","t","e","m","s">>>>, <<PyList(<<PyInt(1)>>)>>)>>) >>)

Records ==
    {Record_full, Record_empty, Record_blank, Record_null, Record_listinfo,
     Record_strexp, Record_numbers, Record_virtual, Record_badskills}

\* the paths and transform names a direct _extract_cv_value call is given
Paths == PatternPaths \cup {<<"e","x","p","e","r","i","e","n","c","e","[","0","]">>, <<"e","x","p","e","r","i","e","n","c","e">>, <<"s","k","i","l","l","s">>, <<"p","e","r","s","o","n","a","l","_","i","n","f","o">>}
Transforms == {None, <<"j","o","i","n","_","s","k","i","l","l","s">>, <<"f","o","r","m","a","t","_","e","x","p","e","r","i","e","n","c","e">>, <<"u","p","p","e","r">>}

\* the record of the skills scenario
Record_skills == PyDict(<<<<"s","k","i","l","l","s">>>>, <<SkillsList>>)
ExtractRecords == Records \cup {Record_skills, SkillsList}

-----------------------------------------------------------------------------
(* The detector keeps no state between calls, so what a call returns depends
   on its arguments alone.  The results over the inputs above are tabulated
   once; a call on such an input reads the table. *)

KnownFields == SingleFields \cup {FieldDict(f) : f \in {g \in Fields : Validates(g)}}

classify_memo == [f \in KnownFields |-> _classify_single_field(FormField(f))]

\* self._classify_single_field(field_obj), field_obj being FormField(f)
Classify(f) == classify_memo[f]

extract_memo ==
    [data \in ExtractRecords, path \in Paths \cup {None}, transform \in Transforms |->
        _extract_cv_value(data, path, transform)]

\* self._extract_cv_value(data, path, transform)
Extract(data, path, transform) == extract_memo[data, path, transform]

-----------------------------------------------------------------------------
(* FormDetector.classify_fields *)

EmitThreshold == 50

\* Emit without the guard: a FormMapping for every field
Emit_NoThreshold(field_obj, c) ==
    << [field_name |-> field_obj.name,
        cv_path |-> c.classification,
        transform_function |-> Get(common_transforms, c.classification, None),
        confidence |-> c.confidence] >>

\* the FormMapping classify_fields appends for a field classified as c, as a
\* sequence of zero or one element
Emit(field_obj, c) ==
    IF c.classification # None /\ c.classification # <<>>
       /\ c.confidence > EmitThreshold
    THEN << [field_name |-> field_obj.name,
             cv_path |-> c.classification,
             transform_function |-> Get(common_transforms, c.classification, None),
             confidence |-> c.confidence] >>
    ELSE <<>>

ClassifyOne(f) == Emit(FormField(f), Classify(f))

RECURSIVE classify_fields(_)
classify_fields(field_data) ==
    IF field_data = <<>> THEN <<>>
    ELSE ClassifyOne(Head(field_data)) \o classify_fields(Tail(field_data))

-----------------------------------------------------------------------------
(* FormDetector.generate_field_mapping *)

\* the report of a call that raised: only exc is meaningful
Raised(e) ==
    [exc |-> e, mappings |-> <<>>, unmapped_fields |-> <<>>,
     confidence_scores |-> <<>>, mapped_field_names |-> {}]

\* Record testing "field_value is not None" instead of "field_value": an empty
\* string is appended
Record_AppendsEmpty(result, mapping, field_value) ==
    IF field_value.exc # "" THEN Raised(field_value.exc)
    ELSE [result EXCEPT
            !.mappings =
               IF field_value.value # None
               THEN Append(@, [field_name |-> mapping.field_name,
                               cv_path |-> mapping.cv_path,
                               value |-> field_value.value,
                               confidence |-> mapping.confidence])
               ELSE @,
            !.confidence_scores = (mapping.field_name :> mapping.confidence) @@ @,
            !.mapped_field_names = @ \cup {mapping.field_name}]

\* Record with the confidence recorded inside "if field_value:", so only for
\* the fields that have a value
Record_ScoresOnlyWithValue(result, mapping, field_value) ==
    IF field_value.exc # "" THEN Raised(field_value.exc)
    ELSE IF field_value.value # None /\ field_value.value # <<>>
    THEN [result EXCEPT
            !.mappings = Append(@, [field_name |-> mapping.field_name,
                                    cv_path |-> mapping.cv_path,
                                    value |-> field_value.value,
                                    confidence |-> mapping.confidence]),
            !.confidence_scores = (mapping.field_name :> mapping.confidence) @@ @,
            !.mapped_field_names = @ \cup {mapping.field_name}]
    ELSE [result EXCEPT !.mapped_field_names = @ \cup {mapping.field_name}]

\* Record keeping the confidence already recorded for a name
Record_FirstScoreKept(result, mapping, field_value) ==
    IF field_value.exc # "" THEN Raised(field_value.exc)
    ELSE [result EXCEPT
            !.mappings =
               IF field_value.value # None /\ field_value.value # <<>>
               THEN Append(@, [field_name |-> mapping.field_name,
                               cv_path |-> mapping.cv_path,
                               value |-> field_value.value,
                               confidence |-> mapping.confidence])
               ELSE @,
            !.confidence_scores = @ @@ (mapping.field_name :> mapping.confidence),
            !.mapped_field_names = @ \cup {mapping.field_name}]

\* the body of the first loop for one mapping whose extraction ended as
\* field_value
Record(result, mapping, field_value) ==
    IF field_value.exc # "" THEN Raised(field_value.exc)
    ELSE [result EXCEPT
            !.mappings =
               IF field_value.value # None /\ field_value.value # <<>>
               THEN Append(@, [field_name |-> mapping.field_name,
                               cv_path |-> mapping.cv_path,
                               value |-> field_value.value,
                               confidence |-> mapping.confidence])
               ELSE @,
            !.confidence_scores = (mapping.field_name :> mapping.confidence) @@ @,
            !.mapped_field_names = @ \cup {mapping.field_name}]

\* the first loop, over mappings[i..]: result holds what was built so far; an
\* exception ends the call
RECURSIVE ExtractLoop(_, _, _, _)
ExtractLoop(data, mappings, i, result) ==
    IF i > Len(mappings) \/ result.exc # "" THEN result
    ELSE ExtractLoop(data, mappings, i + 1,
            Record(result, mappings[i],
                   Extract(data, mappings[i].cv_path, mappings[i].transform_function)))

\* Unmapped without the test of the name being non-empty
Unmapped_KeepsNameless(f, mapped_field_names) ==
    IF Get(f, "name", <<>>) \notin mapped_field_names
    THEN << [name |-> Get(f, "name", <<>>),
             type |-> Get(f, "type", <<"t","e","x","t">>),
             label |-> Get(f, "label", <<>>),
             placeholder |-> Get(f, "placeholder", <<>>)] >>
    ELSE <<>>

\* Unmapped without the test against mapped_field_names
Unmapped_IgnoresMapped(f, mapped_field_names) ==
    IF Get(f, "name", <<>>) # <<>>
    THEN << [name |-> Get(f, "name", <<>>),
             type |-> Get(f, "type", <<"t","e","x","t">>),
             label |-> Get(f, "label", <<>>),
             placeholder |-> Get(f, "placeholder", <<>>)] >>
    ELSE <<>>

\* the unmapped_fields entry of one field, as a sequence of zero or one element
Unmapped(f, mapped_field_names) ==
    IF Get(f, "name", <<>>) # <<>> /\ Get(f, "name", <<>>) \notin mapped_field_names
    THEN << [name |-> Get(f, "name", <<>>),
             type |-> Get(f, "type", <<"t","e","x","t">>),
             label |-> Get(f, "label", <<>>),
             placeholder |-> Get(f, "placeholder", <<>>)] >>
    ELSE <<>>

\* the second loop, over form_fields[i..]
RECURSIVE UnmappedLoop(_, _, _)
UnmappedLoop(fields, i, mapped_field_names) ==
    IF i > Len(fields) THEN <<>>
    ELSE Unmapped(fields[i], mapped_field_names)
         \o UnmappedLoop(fields, i + 1, mapped_field_names)

\* the second loop and the return of the report, unless the first loop raised
Complete(result, fields) ==
    [exc |-> result.exc,
     mappings |-> result.mappings,
     unmapped_fields |->
        IF result.exc # "" THEN <<>>
        ELSE UnmappedLoop(fields, 1, result.mapped_field_names),
     confidence_scores |-> result.confidence_scores]

generate_field_mapping(data, fields) ==
    Complete(ExtractLoop(data, classify_fields(fields), 1,
                         [exc |-> "", mappings |-> <<>>, unmapped_fields |-> <<>>,
                          confidence_scores |-> <<>>, mapped_field_names |-> {}]),
             fields)

-----------------------------------------------------------------------------
(* main.py: POST /api/generate-mappings *)

StatusOk == 200
StatusInvalid == 422
StatusError == 500

Failure(code) ==
    [status_code |-> code, success |-> FALSE, mappings |-> <<>>,
     unmapped_fields |-> <<>>, confidence_scores |-> <<>>,
     total_fields |-> 0, mapped_fields |-> 0]

\* the response for what generate_field_mapping returned or raised
Respond(mappings, total) ==
    IF mappings.exc # "" THEN Failure(StatusError)
    ELSE [status_code |-> StatusOk, success |-> TRUE,
          mappings |-> mappings.mappings,
          unmapped_fields |-> mappings.unmapped_fields,
          confidence_scores |-> mappings.confidence_scores,
          total_fields |-> total,
          mapped_fields |-> Len(mappings.mappings)]

generate_mappings(data, fields) ==
    IF \E i \in 1..Len(fields) : ~Validates(fields[i]) THEN Failure(StatusInvalid)
    ELSE Respond(generate_field_mapping(data, [i \in 1..Len(fields) |-> FieldDict(fields[i])]),
                 Len(fields))

-----------------------------------------------------------------------------
(* The state machine: a caller makes one call of one operation. *)

Operations ==
    {"generate_field_mapping", "generate_mappings", "classify_fields",
     "_classify_single_field", "_extract_cv_value"}

NoRecord == PyNone
NoField == [name |-> <<>>]

\* no learning-engine call is made: the table is empty and stays so
\* Learning.__init__ of llm_service: max_feedback_size: int = 100
DefaultMaxFeedbackSize == 100

\* nothing persisted, the default capacity
NoFeedback ==
    /\ max_feedback_size = DefaultMaxFeedbackSize
    /\ feedback_store = <<>>

NoLearning ==
    /\ NoFeedback
    /\ store = <<>>
    /\ feedback_data = <<>>
    /\ call = <<>>
    /\ learned_mappings = <<>>
    /\ requests = <<>>
    /\ write_lock = 0

\* FormDetector.__init__: the tables of the detector
Tables ==
    [classification_patterns |-> classification_patterns,
     common_transforms |-> common_transforms,
     transforms |-> TransformNames]

\* the operation a caller invokes and its arguments
Arguments ==
    \/ /\ op \in {"generate_field_mapping", "generate_mappings"}
       /\ cv_data \in Records
       /\ form_fields \in Batches
       /\ cv_path = <<>> /\ transform_function = None /\ field = NoField
    \/ /\ op = "classify_fields"
       /\ cv_data = NoRecord
       /\ form_fields \in Batches
       /\ cv_path = <<>> /\ transform_function = None /\ field = NoField
    \/ /\ op = "_classify_single_field"
       /\ cv_data = NoRecord /\ form_fields = <<>>
       /\ cv_path = <<>> /\ transform_function = None
       /\ field \in SingleFields
    \/ /\ op = "_extract_cv_value"
       /\ cv_data \in ExtractRecords
       /\ form_fields = <<>> /\ field = NoField
       /\ cv_path \in Paths
       /\ transform_function \in Transforms

Init ==
    /\ pc = "ready"
    /\ ret = <<>>
    /\ first = <<>>
    /\ detector = Tables
    /\ NoLearning
    /\ Arguments

\* Finish for a call that empties the record it was given
Finish_ClearsRecord(value) ==
    /\ pc' = "done"
    /\ ret' = value
    /\ cv_data' = NoRecord
    /\ UNCHANGED <<op, form_fields, cv_path, transform_function, field, detector, first,
                   learning_vars>>

Finish(value) ==
    /\ pc' = "done"
    /\ ret' = value
    /\ UNCHANGED <<op, detector_vars, learning_vars>>

CallGenerateFieldMapping ==
    /\ pc = "ready" /\ op = "generate_field_mapping"
    /\ Finish(generate_field_mapping(cv_data, form_fields))

CallGenerateMappings ==
    /\ pc = "ready" /\ op = "generate_mappings"
    /\ Finish(generate_mappings(cv_data, form_fields))

CallClassifyFields ==
    /\ pc = "ready" /\ op = "classify_fields"
    /\ Finish(classify_fields(form_fields))

CallClassifySingleField ==
    /\ pc = "ready" /\ op = "_classify_single_field"
    /\ Finish(Classify(field))

CallExtractCvValue ==
    /\ pc = "ready" /\ op = "_extract_cv_value"
    /\ Finish(Extract(cv_data, cv_path, transform_function))

Next ==
    \/ CallGenerateFieldMapping
    \/ CallGenerateMappings
    \/ CallClassifyFields
    \/ CallClassifySingleField
    \/ CallExtractCvValue

Spec == Init /\ [][Next]_vars

-----------------------------------------------------------------------------
(* What the properties below speak of *)

\* a call of op has ended
Done(o) == pc = "done" /\ op = o

\* generate_field_mapping has returned a report
Mapped == Done("generate_field_mapping") /\ ret.exc = ""

NameOf(f) == Get(f, "name", <<>>)
PathOf(f) == Classify(f).classification
ConfidenceOf(f) == Classify(f).confidence

\* the field classifies: a family matches its text
Classifies(f) == PathOf(f) # None

\* how extracting the field's value from data ends
ValueOf(data, f) == Extract(data, PathOf(f), Get(common_transforms, PathOf(f), None))

\* the field classifies and a non-empty value is extracted for it
HasValue(data, f) ==
    /\ Classifies(f)
    /\ ConfidenceOf(f) > EmitThreshold
    /\ ValueOf(data, f).exc = ""
    /\ ValueOf(data, f).value \notin {None, <<>>}

\* number of positions of seq that satisfy P
Count(seq, P(_)) == Cardinality({i \in DOMAIN seq : P(seq[i])})

MappingNames(report) == {report.mappings[j].field_name : j \in DOMAIN report.mappings}
UnmappedNames(report) == {report.unmapped_fields[j].name : j \in DOMAIN report.unmapped_fields}
ClassifiedNames(fields) == {NameOf(fields[i]) : i \in {k \in DOMAIN fields : Classifies(fields[k])}}

-----------------------------------------------------------------------------
\* C1: in the report of generate_field_mapping every input field is accounted
\* for exactly once: for every name, the number of input fields of that name
\* is the number of mappings entries plus the number of unmapped_fields
\* entries of that name.
C1_EveryFieldAccountedOnce ==
    Mapped =>
        \A n \in {NameOf(form_fields[i]) : i \in DOMAIN form_fields} :
            LET HasName(f) == NameOf(f) = n
                IsMapping(m) == m.field_name = n
                IsUnmapped(u) == u.name = n
            IN  Count(form_fields, HasName)
                = Count(ret.mappings, IsMapping) + Count(ret.unmapped_fields, IsUnmapped)

-----------------------------------------------------------------------------
\* the extraction of the field's value fails: it raises or gives no value
ExtractionFails(data, f) ==
    Classifies(f) /\ (ValueOf(data, f).exc # "" \/ ValueOf(data, f).value \in {None, <<>>})

\* the batch without the fields whose extraction fails
RECURSIVE WithoutFailing(_, _)
WithoutFailing(data, fields) ==
    IF fields = <<>> THEN <<>>
    ELSE (IF ExtractionFails(data, Head(fields)) THEN <<>> ELSE <<Head(fields)>>)
         \o WithoutFailing(data, Tail(fields))

\* C2: an extraction or transform failure for one field never aborts the
\* batch: the call returns a report (and the endpoint answers 200), a failing
\* field has its confidence recorded and no mappings entry, and the mappings
\* are those of the batch without the failing fields.
C2_FailureNeverAbortsBatch ==
    /\ Done("generate_field_mapping") =>
          /\ ret.exc = ""
          /\ \A i \in DOMAIN form_fields :
                ExtractionFails(cv_data, form_fields[i]) =>
                    NameOf(form_fields[i]) \in DOMAIN ret.confidence_scores
          /\ ret.mappings
             = generate_field_mapping(cv_data, WithoutFailing(cv_data, form_fields)).mappings
    /\ (Done("generate_mappings") /\ \A i \in DOMAIN form_fields : Validates(form_fields[i]))
          => ret.status_code = StatusOk

-----------------------------------------------------------------------------
\* the path does not resolve in the record: a segment meets null, a missing
\* key or index, or a node of the wrong type for the segment
RECURSIVE Unresolvable(_, _, _)
Unresolvable(node, parts, i) ==
    IF i > Len(parts) THEN FALSE
    ELSE IF IsDigitStr(parts[i])
    THEN \/ node.kind # "list"
         \/ ParseInt(parts[i]) >= Len(node.kids)
         \/ node.kids[ParseInt(parts[i]) + 1].kind = "none"
         \/ Unresolvable(node.kids[ParseInt(parts[i]) + 1], parts, i + 1)
    ELSE \/ node.kind # "dict"
         \/ KeyIndex(node, parts[i]) = 0
         \/ node.kids[KeyIndex(node, parts[i])].kind = "none"
         \/ Unresolvable(node.kids[KeyIndex(node, parts[i])], parts, i + 1)

PathParts(path) == SplitDots(SubBrackets(path, 1), 1, <<>>)

\* C3: _extract_cv_value never raises, and returns null whenever a segment of
\* the path resolves to null or to a missing key or index or is applied to a
\* node of the wrong type.
C3_ExtractNeverRaises ==
    Done("_extract_cv_value") =>
        /\ ret.exc = ""
        /\ Unresolvable(cv_data, PathParts(cv_path), 1) => ret.value = None

-----------------------------------------------------------------------------
\* the record's top-level skills list, or None
SkillsOf(data) ==
    IF data.kind = "dict" /\ KeyIndex(data, <<"s","k","i","l","l","s">>) # 0
    THEN data.kids[KeyIndex(data, <<"s","k","i","l","l","s">>)] ELSE PyNone

\* the skills list has a category with items
HasSkills(data) ==
    /\ SkillsOf(data).kind = "list"
    /\ \E i \in DOMAIN SkillsOf(data).kids :
          SkillsOf(data).kids[i].kind = "dict" /\ Truthy(Items(SkillsOf(data).kids[i]))

\* C4: extracting skills_text with join_skills from the record
\* {skills: [{items: [Python, Go]}, {items: [SQL]}]} yields "Python, Go, SQL",
\* and a field classified as skills_text over a record whose skills list has
\* items is mapped to the comma-joined items.
C4_SkillsTextJoined ==
    /\ (/\ Done("_extract_cv_value")
        /\ cv_data = Record_skills
        /\ cv_path = <<"s","k","i","l","l","s","_","t","e","x","t">>
        /\ transform_function = <<"j","o","i","n","_","s","k","i","l","l","s">>)
          => ret = Return(<<"P","y","t","h","o","n",","," ","G","o",","," ","S","Q","L">>)
    /\ (Mapped /\ HasSkills(cv_data)) =>
          \A i \in DOMAIN form_fields :
              PathOf(form_fields[i]) = <<"s","k","i","l","l","s","_","t","e","x","t">> =>
                  \E j \in DOMAIN ret.mappings :
                      /\ ret.mappings[j].field_name = NameOf(form_fields[i])
                      /\ ret.mappings[j].cv_path = <<"s","k","i","l","l","s","_","t","e","x","t">>
                      /\ ret.mappings[j].value = _join_skills(SkillsOf(cv_data)).value

-----------------------------------------------------------------------------
\* the mappings entry of a field that has a value
ExpectedEntry(data, f) ==
    [field_name |-> NameOf(f), cv_path |-> PathOf(f),
     value |-> ValueOf(data, f).value, confidence |-> ConfidenceOf(f)]

\* one entry per field that has a value, in input order
RECURSIVE ExpectedMappings(_, _)
ExpectedMappings(data, fields) ==
    IF fields = <<>> THEN <<>>
    ELSE (IF HasValue(data, Head(fields)) THEN <<ExpectedEntry(data, Head(fields))>> ELSE <<>>)
         \o ExpectedMappings(data, Tail(fields))

\* C5: in a returned report a field has an entry in mappings if and only if
\* its classification has confidence > 0.5 and the value extracted at the
\* classified path is non-empty, and the entry carries the field's name, the
\* path, the value and the confidence; the endpoint reports mapped_fields =
\* number of mappings entries (positive when a field has a value) and
\* total_fields = number of input fields.
C5_MappingsIffClassifiedWithValue ==
    /\ Mapped => ret.mappings = ExpectedMappings(cv_data, form_fields)
    /\ (Done("generate_mappings") /\ ret.status_code = StatusOk) =>
          /\ ret.mappings
             = ExpectedMappings(cv_data, [i \in DOMAIN form_fields |-> FieldDict(form_fields[i])])
          /\ ret.mapped_fields = Len(ret.mappings)
          /\ ret.total_fields = Len(form_fields)
          /\ (\E i \in DOMAIN form_fields : HasValue(cv_data, FieldDict(form_fields[i])))
                => ret.mapped_fields > 0

\* a report with an entry for a field that has a value, returned for a batch
\* in which another field classifies without a value
C5_Witness ==
    /\ Mapped
    /\ ret.mappings # <<>>
    /\ \E i \in DOMAIN form_fields : HasValue(cv_data, form_fields[i])
    /\ \E i \in DOMAIN form_fields :
          Classifies(form_fields[i]) /\ ~HasValue(cv_data, form_fields[i])

-----------------------------------------------------------------------------
-----------------------------------------------------------------------------
\* the unmapped_fields entry of a field
UnmappedEntry(f) ==
    [name |-> NameOf(f), type |-> Get(f, "type", <<"t","e","x","t">>),
     label |-> Get(f, "label", <<>>), placeholder |-> Get(f, "placeholder", <<>>)]

RECURSIVE ExpectedUnmapped(_, _)
ExpectedUnmapped(fields, classified) ==
    IF fields = <<>> THEN <<>>
    ELSE (IF NameOf(Head(fields)) # <<>> /\ NameOf(Head(fields)) \notin classified
          THEN <<UnmappedEntry(Head(fields))>> ELSE <<>>)
         \o ExpectedUnmapped(Tail(fields), classified)

-----------------------------------------------------------------------------
\* C8: in every returned report no name is both a field_name of mappings and
\* a name of unmapped_fields.
C8_MappingsUnmappedDisjoint ==
    Mapped => MappingNames(ret) \cap UnmappedNames(ret) = {}

\* a report for a batch in which a field with a value and an unclassified
\* field share their name
C8_Witness ==
    /\ Mapped
    /\ \E i, k \in DOMAIN form_fields :
          /\ i # k
          /\ NameOf(form_fields[i]) = NameOf(form_fields[k])
          /\ HasValue(cv_data, form_fields[i])
          /\ ~Classifies(form_fields[k])
    /\ MappingNames(ret) # {}

-----------------------------------------------------------------------------
\* C9: classify_fields emits a FormMapping only for a field whose
\* classification confidence is > 0.5, its cv_path is a key of the pattern
\* table, and so is the cv_path of every mappings entry of a report.
C9_EmittedOnlyAboveThreshold ==
    /\ Done("classify_fields") =>
          \A j \in DOMAIN ret :
              /\ ret[j].confidence > EmitThreshold
              /\ ret[j].cv_path \in PatternPaths
              /\ \E i \in DOMAIN form_fields :
                    /\ NameOf(form_fields[i]) = ret[j].field_name
                    /\ PathOf(form_fields[i]) = ret[j].cv_path
                    /\ ConfidenceOf(form_fields[i]) = ret[j].confidence
    /\ Mapped =>
          \A j \in DOMAIN ret.mappings :
              /\ ret.mappings[j].confidence > EmitThreshold
              /\ ret.mappings[j].cv_path \in PatternPaths

\* classify_fields returned mappings for some fields of the batch, not all
C9_Witness ==
    /\ Done("classify_fields")
    /\ Len(ret) >= 1
    /\ Len(ret) < Len(form_fields)

-----------------------------------------------------------------------------
\* the confidence of each family for the field's combined text
FamilyConfidences(f) ==
    [i \in DOMAIN classification_patterns |->
        _calculate_pattern_confidence(combined_text(FormField(f)),
                                      classification_patterns[i].patterns)]

\* the result names family i, whose confidence is maximal and strictly above
\* that of every family declared before it
FirstMaximal(result, confs, i) ==
    /\ result.classification = classification_patterns[i].path
    /\ result.confidence = confs[i]
    /\ \A j \in DOMAIN confs : confs[j] <= confs[i]
    /\ \A j \in DOMAIN confs : j < i => confs[j] < confs[i]

NoClassification == [classification |-> None, confidence |-> 0]

\* C10: _classify_single_field returns the path of maximal family confidence,
\* the first-declared one among equals, and (null, 0.0) when no family scores
\* above 0, as for every field whose combined text is empty.
C10_BestFamilyFirstDeclared ==
    Done("_classify_single_field") =>
        /\ (\A i \in DOMAIN classification_patterns : FamilyConfidences(field)[i] = 0)
              => ret = NoClassification
        /\ (\E i \in DOMAIN classification_patterns : FamilyConfidences(field)[i] > 0)
              => \E i \in DOMAIN classification_patterns :
                    FirstMaximal(ret, FamilyConfidences(field), i)
        /\ combined_text(FormField(field)) = <<>> => ret = NoClassification

\* a field for which two families share the maximal confidence
C10_Witness ==
    /\ Done("_classify_single_field")
    /\ ret.confidence > 0
    /\ \E i, j \in DOMAIN classification_patterns :
          /\ i < j
          /\ FamilyConfidences(field)[i] = ret.confidence
          /\ FamilyConfidences(field)[j] = ret.confidence

-----------------------------------------------------------------------------
(* The learning engine.  A confidence that is passed in or stored is kept in
   hundredths, as above; an average, a similarity score and a returned
   confidence are exact fractions [num, den] in lowest terms, so that equal
   values are equal fractions. *)

Min(a, b) == IF a <= b THEN a ELSE b

Abs(n) == IF n < 0 THEN 0 - n ELSE n

RECURSIVE GCD(_, _)
GCD(a, b) == IF b = 0 THEN a ELSE GCD(b, a % b)

\* the fraction n/d (d > 0) in lowest terms
Reduced(n, d, g) == [num |-> n \div g, den |-> d \div g]
Rat(n, d) == Reduced(n, d, GCD(Abs(n), d))

Zero == Rat(0, 1)
One == Rat(1, 1)

RatMul(a, b) == Rat(a.num * b.num, a.den * b.den)
RatLess(a, b) == a.num * b.den < b.num * a.den
RatLeq(a, b) == a.num * b.den <= b.num * a.den
RatMin(a, b) == IF RatLeq(a, b) THEN a ELSE b

\* s.split(): the maximal runs of non-whitespace characters of s[i..], cur
\* being the run read so far
Run(cur) == IF cur = <<>> THEN <<>> ELSE <<cur>>
RECURSIVE SplitWords(_, _, _)
SplitWords(s, i, cur) ==
    IF i > Len(s) THEN Run(cur)
    ELSE IF s[i] \in WhiteChars THEN Run(cur) \o SplitWords(s, i + 1, <<>>)
    ELSE SplitWords(s, i + 1, Append(cur, s[i]))

\* set(s.split())
Words(s) == Range(SplitWords(s, 1, <<>>))

\* sub in text
Contains(sub, text) ==
    \E p \in 1..(Len(text) - Len(sub) + 1) : SubSeq(text, p, p + Len(sub) - 1) = sub

-----------------------------------------------------------------------------
(* Configuration.learn_field_mapping: table is the content of field_mappings
   when the INSERT runs; the outcome is the exception raised, if any, and the
   content after the call. *)

\* Clamp without the clamping: the confidence as passed
Clamp_None(confidence) == confidence

\* Clamp without the upper limit
Clamp_FloorOnly(confidence) == Max(0, confidence)

\* max(0.0, min(1.0, confidence))
Clamp(confidence) == Max(0, Min(FullConfidence, confidence))

\* the row of the INSERT
Row(domain, field_name, path, confidence) ==
    [domain |-> Strip(domain),
     field_name |-> Strip(field_name),
     cv_path |-> Strip(path),
     confidence |-> Clamp(confidence)]

\* Insert as a replacement of the content by the new row
Insert_Replaces(table, row) == <<row>>

\* INSERT INTO field_mappings ... and commit
Insert(table, row) == Append(table, row)

Stored(exc, table) == [exc |-> exc, field_mappings |-> table]

\* learn_field_mapping without the check of field_name
learn_field_mapping_NoNameCheck(table, domain, field_name, path, confidence) ==
    IF Strip(domain) = <<>> THEN Stored("ValueError", table)
    ELSE Stored("", Insert(table, Row(domain, field_name, path, confidence)))

learn_field_mapping(table, domain, field_name, path, confidence) ==
    IF Strip(domain) = <<>> THEN Stored("ValueError", table)
    ELSE IF Strip(field_name) = <<>> THEN Stored("ValueError", table)
    ELSE Stored("", Insert(table, Row(domain, field_name, path, confidence)))

-----------------------------------------------------------------------------
(* Configuration.get_learned_mappings: the SELECT over field_mappings *)

\* RowsOf without the WHERE clause
RowsOf_AnyDomain(table, domain) == DOMAIN table

\* WHERE domain = ?
RowsOf(table, domain) == {i \in DOMAIN table : table[i].domain = domain}

\* GROUP BY field_name, cv_path: the rows of the group of row i
Group(table, domain, i) ==
    {j \in RowsOf(table, domain) :
        table[j].field_name = table[i].field_name /\ table[j].cv_path = table[i].cv_path}

RECURSIVE Sum(_, _)
Sum(table, rows) ==
    IF rows = {} THEN 0
    ELSE LET j == CHOOSE k \in rows : TRUE
         IN  table[j].confidence + Sum(table, rows \ {j})

\* AVG(confidence) as avg_confidence
Avg(table, rows) == Rat(Sum(table, rows), FullConfidence * Cardinality(rows))

\* HAVING avg_confidence > 0.5
HavingFloor == Rat(1, 2)

\* the result row of one group
Aggregate(table, rows, i) ==
    [field_name |-> table[i].field_name,
     cv_path |-> table[i].cv_path,
     confidence |-> Avg(table, rows),
     usage_count |-> Cardinality(rows)]

\* LearnedGroups without the HAVING clause
LearnedGroups_NoHaving(table, domain) ==
    {Aggregate(table, Group(table, domain, i), i) : i \in RowsOf(table, domain)}

\* the result rows, one per group that passes HAVING
LearnedGroups(table, domain) ==
    {m \in {Aggregate(table, Group(table, domain, i), i) : i \in RowsOf(table, domain)} :
        RatLess(HavingFloor, m.confidence)}

\* Before for ORDER BY avg_confidence DESC, usage_count DESC
Before_ConfidenceFirst(a, b) ==
    \/ RatLess(b.confidence, a.confidence)
    \/ a.confidence = b.confidence /\ a.usage_count >= b.usage_count

\* ORDER BY usage_count DESC, avg_confidence DESC: a may come before b
Before(a, b) ==
    \/ a.usage_count > b.usage_count
    \/ a.usage_count = b.usage_count /\ RatLeq(b.confidence, a.confidence)

\* the sequences that hold each element of S once
Arrangements(S) ==
    {s \in [1..Cardinality(S) -> S] : \A i, j \in DOMAIN s : i # j => s[i] # s[j]}

\* What fetchall() may return: SQL leaves the order of rows that are equal
\* under ORDER BY to the engine, so every order that respects it is possible.
get_learned_mappings(table, domain) ==
    {s \in Arrangements(LearnedGroups(table, domain)) :
        \A i, j \in DOMAIN s : i < j => Before(s[i], s[j])}

-----------------------------------------------------------------------------
(* Learning *)

\* the confidence record_user_correction stores
CorrectionConfidence == 100

\* the entry record_user_correction appends to feedback_data[domain]
Feedback(domain, field_info, suggested_mapping, user_mapping, confidence) ==
    [domain |-> domain,
     field_name |-> Get(field_info, "name", <<>>),
     field_type |-> Get(field_info, "type", <<>>),
     field_label |-> Get(field_info, "label", <<>>),
     field_placeholder |-> Get(field_info, "placeholder", <<>>),
     suggested_mapping |-> suggested_mapping,
     correct_mapping |-> user_mapping,
     original_confidence |-> confidence]

\* self.feedback_data[domain].append(feedback), feedback_data being a
\* defaultdict(list)
Appended(feedback, domain, entry) ==
    (domain :> Append(Get(feedback, domain, <<>>), entry)) @@ feedback

\* the state after the call, and the exception it raised, if any
Recorded(feedback, stored) ==
    [exc |-> stored.exc, feedback_data |-> feedback, field_mappings |-> stored.field_mappings]

\* record_user_correction storing the confidence it was given
record_user_correction_KeepsConfidence(feedback, table, domain, field_info, suggested_mapping, user_mapping, confidence) ==
    Recorded(Appended(feedback, domain,
                      Feedback(domain, field_info, suggested_mapping, user_mapping, confidence)),
             learn_field_mapping(table, domain, Get(field_info, "name", <<>>),
                                 user_mapping, confidence))

record_user_correction(feedback, table, domain, field_info, suggested_mapping, user_mapping, confidence) ==
    Recorded(Appended(feedback, domain,
                      Feedback(domain, field_info, suggested_mapping, user_mapping, confidence)),
             learn_field_mapping(table, domain, Get(field_info, "name", <<>>),
                                 user_mapping, CorrectionConfidence))

record_successfull_fill(feedback, table, domain, field_name, mapping, confidence) ==
    Recorded(feedback, learn_field_mapping(table, domain, field_name, mapping, confidence))

-----------------------------------------------------------------------------
(* Learning._calculate_similarity_score *)

\* f"{name} {label} {placeholder}".lower()
field_text(field_info) ==
    Lower(Get(field_info, "name", <<>>) \o <<" ">> \o Get(field_info, "label", <<>>)
          \o <<" ">> \o Get(field_info, "placeholder", <<>>))

\* jaccard_score *= 1.5
BoostFactor == Rat(3, 2)

\* len(intersection) / len(union)
Jaccard(field_words, mapping_words) ==
    Rat(Cardinality(field_words \cap mapping_words), Cardinality(field_words \cup mapping_words))

\* mapping_field in field_text or any(word in field_text for word in mapping_words)
Boosted(text, mapping_field, mapping_words) ==
    Contains(mapping_field, text) \/ \E word \in mapping_words : Contains(word, text)

\* jaccard_score *= 1.5 in binary floating point.  The product is the exact
\* one for the ratios of small sets, but for 0.2: 0.2 * 1.5 is
\* 0.30000000000000004, the float just above 0.3, kept here as 0.301.
JustAboveFloor == Rat(301, 1000)
Times15(jaccard_score) ==
    IF jaccard_score = Rat(1, 5) THEN JustAboveFloor ELSE RatMul(jaccard_score, BoostFactor)

\* the score of a field whose text is text against a learned field name
Similarity(text, mapping_field, jaccard_score) ==
    IF Boosted(text, mapping_field, Words(mapping_field))
    THEN RatMin(Times15(jaccard_score), One)
    ELSE RatMin(jaccard_score, One)

_calculate_similarity_score(field_info, learned_mapping) ==
    IF Words(field_text(field_info)) = {} \/ Words(Lower(learned_mapping.field_name)) = {}
    THEN Zero
    ELSE Similarity(field_text(field_info), Lower(learned_mapping.field_name),
                    Jaccard(Words(field_text(field_info)),
                            Words(Lower(learned_mapping.field_name))))

-----------------------------------------------------------------------------
(* Learning.improve_field_classification, learned being what
   get_learned_mappings(domain) returned *)

\* the tuple the call returns
Improved(path, confidence) == [cv_path |-> path, confidence |-> confidence]

\* the factor of the boost of an exact match
ExactBoost == Rat(6, 5)

\* Boost without the cap
Boost_Uncapped(confidence) == RatMul(confidence, ExactBoost)

\* min(mapping["confidence"] * 1.2, 1.0)
Boost(confidence) == RatMin(RatMul(confidence, ExactBoost), One)

\* the first loop: position of the first mapping of learned[i..] whose name is
\* the field's, or 0
RECURSIVE ExactMatch(_, _, _)
ExactMatch(learned, field_name, i) ==
    IF i > Len(learned) THEN 0
    ELSE IF Lower(learned[i].field_name) = field_name THEN i
    ELSE ExactMatch(learned, field_name, i + 1)

\* best_match = None; best_score = 0.0
NoMatch == [field_name |-> None, cv_path |-> None, confidence |-> Zero, usage_count |-> 0]
NoBest == [best_match |-> NoMatch, best_score |-> Zero]

\* score > 0.3
SimilarityFloor == Rat(3, 10)

\* Closer with >= for >: among equal scores the last mapping wins
Closer_LastWins(best, mapping, score) ==
    IF RatLeq(best.best_score, score) /\ RatLess(SimilarityFloor, score)
    THEN [best_match |-> mapping, best_score |-> score]
    ELSE best

\* one step of the second loop
Closer(best, mapping, score) ==
    IF RatLess(best.best_score, score) /\ RatLess(SimilarityFloor, score)
    THEN [best_match |-> mapping, best_score |-> score]
    ELSE best

\* the second loop over learned[i..]
RECURSIVE BestMatch(_, _, _, _)
BestMatch(field_info, learned, i, best) ==
    IF i > Len(learned) THEN best
    ELSE BestMatch(field_info, learned, i + 1,
                   Closer(best, learned[i], _calculate_similarity_score(field_info, learned[i])))

\* if best_match: ... return None, 0.0
Fuzzy(best) ==
    IF best.best_match # NoMatch
    THEN Improved(best.best_match.cv_path, RatMul(best.best_match.confidence, best.best_score))
    ELSE Improved(None, Zero)

\* the return of the first loop at position k, or the second loop
Exact(learned, k, fuzzy) ==
    IF k # 0 THEN Improved(learned[k].cv_path, Boost(learned[k].confidence))
    ELSE fuzzy

improve_field_classification(learned, field_info) ==
    Exact(learned,
          ExactMatch(learned, Lower(Get(field_info, "name", <<>>)), 1),
          Fuzzy(BestMatch(field_info, learned, 1, NoBest)))

-----------------------------------------------------------------------------
(* Inputs of the learning engine *)

MaxObservations == 3

Domain_acme == <<"a","c","m","e",".","c","o","m">>
Domain_padded == <<" ","a","c","m","e",".","c","o","m">>
Domain_other == <<"b",".","o","r","g">>
Domain_blank == <<" "," ">>

Path_email == <<"p","e","r","s","o","n","a","l","_","i","n","f","o",".","e","m","a","i","l">>
Path_phone == <<"p","e","r","s","o","n","a","l","_","i","n","f","o",".","p","h","o","n","e">>

Info_email2 == [name |-> <<"e","m","a","i","l","2">>]
Info_Email == [name |-> <<"E","m","a","i","l">>, type |-> <<"e","m","a","i","l">>]
Info_work_email == [name |-> <<"w","o","r","k"," ","e","m","a","i","l">>]
Info_tel == [name |-> <<"t","e","l">>, label |-> <<"W","o","r","k">>]
Info_nameless == [type |-> <<"t","e","x","t">>, label |-> <<"E","m","a","i","l">>]
Info_zip == [name |-> <<"z","i","p">>, placeholder |-> <<"t","e","l"," ","a"," ","b"," ","c">>]

\* the arguments of a call; a call that takes a field name has it as the
\* name of field_info
Call(domain, field_info, suggested_mapping, mapping, confidence) ==
    [domain |-> domain, field_info |-> field_info,
     suggested_mapping |-> suggested_mapping, mapping |-> mapping,
     confidence |-> confidence]

Corrections ==
    {Call(Domain_acme, Info_email2, Path_phone, Path_email, 30),
     Call(Domain_padded, Info_email2, None, Path_email, 90),
     Call(Domain_acme, Info_nameless, Path_email, Path_phone, 30)}

Fills ==
    {Call(Domain_acme, [name |-> <<"e","m","a","i","l">>], None, Path_email, 60),
     Call(Domain_acme, [name |-> <<"w","o","r","k">>], None, Path_phone, 0 - 20),
     Call(Domain_acme, [name |-> <<"w","o","r","k">>], None, Path_phone, 150),
     Call(Domain_blank, [name |-> <<"e","m","a","i","l">>], None, Path_email, 60)}

DirectWrites ==
    {Call(Domain_other, [name |-> <<" ","t","e","l"," ">>], None, <<" ","p","e","r","s","o","n","a","l","_","i","n","f","o",".","p","h","o","n","e">>, 70),
     Call(<<>>, [name |-> <<"t","e","l">>], None, Path_phone, 70)}

QueryDomains == {Domain_acme, Domain_padded, Domain_other}
QueryFields == {Info_email2, Info_Email, Info_work_email, Info_tel, Info_zip}

\* the lookups made: every field under acme.com, and under the other domains
\* the fields stored there
QueryCalls ==
    ({Domain_acme} \X QueryFields)
        \cup {<<Domain_padded, Info_email2>>, <<Domain_other, Info_tel>>,
              <<Domain_other, Info_zip>>}

-----------------------------------------------------------------------------
(* The state machine of the learning engine: one caller makes one call after
   another on one Learning over one database.  A call that reads changes
   nothing a later call depends on, so the caller's calls are writes, and
   then at most one read, after any number of writes. *)

\* number of entries of feedback_data, over all domains
RECURSIVE FeedbackCount(_, _)
FeedbackCount(feedback, domains) ==
    IF domains = {} THEN 0
    ELSE LET d == CHOOSE x \in domains : TRUE
         IN  Len(feedback[d]) + FeedbackCount(feedback, domains \ {d})

LearnInit ==
    /\ pc = "ready"
    /\ op = "none"
    /\ ret = <<>>
    /\ cv_data = NoRecord /\ form_fields = <<>> /\ field = NoField
    /\ cv_path = <<>> /\ transform_function = None
    /\ detector = Tables /\ first = <<>>
    /\ NoLearning

\* a call that writes has ended as outcome
Written(o, c, outcome) ==
    /\ pc' = "done"
    /\ op' = o
    /\ call' = c
    /\ ret' = [exc |-> outcome.exc, value |-> None]
    /\ store' = outcome.field_mappings
    /\ feedback_data' = outcome.feedback_data
    /\ learned_mappings' = <<>>
    /\ UNCHANGED <<detector_vars, requests, write_lock, engine_vars>>

\* a call that reads has fetched learned and returned value
Answered(o, c, learned, value) ==
    /\ pc' = "answered"
    /\ op' = o
    /\ call' = c
    /\ ret' = Return(value)
    /\ learned_mappings' = learned
    /\ UNCHANGED <<detector_vars, store, feedback_data, requests, write_lock, engine_vars>>

RecordUserCorrection ==
    /\ pc # "answered"
    /\ Len(store) < MaxObservations
    /\ FeedbackCount(feedback_data, DOMAIN feedback_data) < MaxObservations
    /\ \E c \in Corrections :
          Written("record_user_correction", c,
                  record_user_correction(feedback_data, store, c.domain, c.field_info,
                                         c.suggested_mapping, c.mapping, c.confidence))

RecordSuccessfullFill ==
    /\ pc # "answered"
    /\ Len(store) < MaxObservations
    /\ \E c \in Fills :
          Written("record_successfull_fill", c,
                  record_successfull_fill(feedback_data, store, c.domain, c.field_info.name,
                                          c.mapping, c.confidence))

LearnFieldMapping ==
    /\ pc # "answered"
    /\ Len(store) < MaxObservations
    /\ \E c \in DirectWrites :
          Written("learn_field_mapping", c,
                  Recorded(feedback_data,
                           learn_field_mapping(store, c.domain, c.field_info.name,
                                               c.mapping, c.confidence)))

GetLearnedMappings ==
    /\ pc # "answered"
    /\ \E d \in QueryDomains :
          \E learned \in get_learned_mappings(store, d) :
              Answered("get_learned_mappings", Call(d, NoField, None, None, 0), learned, learned)

ImproveFieldClassification ==
    /\ pc # "answered"
    /\ \E q \in QueryCalls :
          \E learned \in get_learned_mappings(store, q[1]) :
              Answered("improve_field_classification", Call(q[1], q[2], None, None, 0),
                       learned, improve_field_classification(learned, q[2]))

LearnNext ==
    \/ RecordUserCorrection
    \/ RecordSuccessfullFill
    \/ LearnFieldMapping
    \/ GetLearnedMappings
    \/ ImproveFieldClassification

LearnSpec == LearnInit /\ [][LearnNext]_vars

-----------------------------------------------------------------------------
(* Concurrent requests.  Every call of learn_field_mapping opens its own
   connection: the INSERT begins a transaction, which needs the database's
   write lock and holds it until commit() publishes the transaction; a
   connection that cannot get the lock before its busy timeout raises
   "database is locked".  The SELECT of get_learned_mappings is one statement
   and reads the committed content. *)

MaxRequests == 2

\* a request: the call it makes and how far it has got
Request(o, c) == [op |-> o, call |-> c, pc |-> "called", exc |-> "", txn |-> <<>>]

ConcurrentCalls ==
    {Request("record_user_correction", Call(Domain_acme, Info_email2, Path_phone, Path_email, 30)),
     Request("record_user_correction", Call(Domain_acme, Info_nameless, Path_email, Path_phone, 30)),
     Request("record_successfull_fill", Call(Domain_acme, [name |-> <<"e","m","a","i","l">>], None, Path_email, 60)),
     Request("record_successfull_fill", Call(Domain_acme, [name |-> <<"e","m","a","i","l","2">>], None, Path_phone, 150))}

\* the confidence the request's call passes to learn_field_mapping
PassedConfidence(req) ==
    IF req.op = "record_user_correction" THEN CorrectionConfidence ELSE req.call.confidence

\* the row the request's INSERT inserts
RowOf(req) ==
    Row(req.call.domain, Get(req.call.field_info, "name", <<>>), req.call.mapping,
        PassedConfidence(req))

\* the validation of learn_field_mapping rejects the request
Rejected(req) ==
    Strip(req.call.domain) = <<>> \/ Strip(Get(req.call.field_info, "name", <<>>)) = <<>>

\* feedback_data after the request's call has reached learn_field_mapping
FeedbackOf(feedback, req) ==
    IF req.op = "record_user_correction"
    THEN Appended(feedback, req.call.domain,
                  Feedback(req.call.domain, req.call.field_info, req.call.suggested_mapping,
                           req.call.mapping, req.call.confidence))
    ELSE feedback

\* no transaction holds the write lock
LockFree_Always(lock) == TRUE

LockFree(lock) == lock = 0

ConcurrentInit ==
    /\ pc = "ready"
    /\ op = "none"
    /\ ret = <<>>
    /\ cv_data = NoRecord /\ form_fields = <<>> /\ field = NoField
    /\ cv_path = <<>> /\ transform_function = None
    /\ detector = Tables /\ first = <<>>
    /\ NoFeedback
    /\ store = <<>>
    /\ feedback_data = <<>>
    /\ call = <<>>
    /\ learned_mappings = <<>>
    /\ requests \in [1..MaxRequests -> ConcurrentCalls]
    /\ write_lock = 0

\* request r goes on as req
Proceed(r, req) ==
    /\ requests' = [requests EXCEPT ![r] = req]
    /\ UNCHANGED <<pc, op, ret, detector_vars, call, learned_mappings, engine_vars>>

\* the call up to the checks of learn_field_mapping
Validate(r) ==
    /\ requests[r].pc = "called"
    /\ feedback_data' = FeedbackOf(feedback_data, requests[r])
    /\ Proceed(r, IF Rejected(requests[r])
                  THEN [requests[r] EXCEPT !.pc = "raised", !.exc = "ValueError"]
                  ELSE [requests[r] EXCEPT !.pc = "validated"])
    /\ UNCHANGED <<store, write_lock>>

\* cursor.execute(INSERT ...): the transaction begins on the committed content
Execute(r) ==
    /\ requests[r].pc = "validated"
    /\ LockFree(write_lock)
    /\ write_lock' = r
    /\ Proceed(r, [requests[r] EXCEPT !.pc = "executed",
                                      !.txn = Insert(store, RowOf(requests[r]))])
    /\ UNCHANGED <<store, feedback_data>>

\* the busy timeout passes while another transaction holds the lock:
\* sqlite3.OperationalError, raised again as sqlite3.DatabaseError
Busy(r) ==
    /\ requests[r].pc = "validated"
    /\ ~LockFree(write_lock)
    /\ Proceed(r, [requests[r] EXCEPT !.pc = "raised", !.exc = "DatabaseError"])
    /\ UNCHANGED <<store, feedback_data, write_lock>>

\* db_channel.commit(), close() and the return
Commit(r) ==
    /\ requests[r].pc = "executed"
    /\ store' = requests[r].txn
    /\ write_lock' = 0
    /\ Proceed(r, [requests[r] EXCEPT !.pc = "returned"])
    /\ UNCHANGED feedback_data

\* a get_learned_mappings call of another request
Read ==
    /\ \E d \in {Domain_acme, Domain_other} :
          \E learned \in get_learned_mappings(store, d) :
              /\ op' = "get_learned_mappings"
              /\ call' = Call(d, NoField, None, None, 0)
              /\ learned_mappings' = learned
              /\ ret' = Return(learned)
    /\ UNCHANGED <<pc, detector_vars, store, feedback_data, requests, write_lock, engine_vars>>

ConcurrentNext ==
    \/ \E r \in DOMAIN requests : Validate(r)
    \/ \E r \in DOMAIN requests : Execute(r)
    \/ \E r \in DOMAIN requests : Busy(r)
    \/ \E r \in DOMAIN requests : Commit(r)
    \/ Read

ConcurrentSpec == ConcurrentInit /\ [][ConcurrentNext]_vars

-----------------------------------------------------------------------------
(* The learning engine's claims, on LearnSpec unless said otherwise *)

WriteOperations == {"record_user_correction", "record_successfull_fill", "learn_field_mapping"}

\* the call that has just ended wrote, or tried to
Wrote == pc = "done" /\ op \in WriteOperations

\* the field name the call passes to learn_field_mapping
WrittenName == Get(call.field_info, "name", <<>>)

\* the domain or the field name of the call is empty or whitespace only
BlankKey == Strip(call.domain) = <<>> \/ Strip(WrittenName) = <<>>

\* C11: a write whose domain or field_name is empty or whitespace only ends
\* with a ValueError raised to the caller and leaves the store as it was; a
\* write with both present raises nothing.
C11_BlankWriteRejected ==
    [][Wrote' => IF BlankKey'
                 THEN ret'.exc = "ValueError" /\ store' = store
                 ELSE ret'.exc = ""]_vars

\* a write with a whitespace-only domain, and one with an empty field name,
\* has been rejected while the store holds observations
C11_Witness ==
    /\ Wrote /\ BlankKey /\ ret.exc = "ValueError" /\ store # <<>>
    /\ op \in {"learn_field_mapping", "record_user_correction"}
    /\ Strip(call.domain) # <<>>

\* the observation an accepted correction stores
CorrectionRow ==
    [domain |-> Strip(call.domain),
     field_name |-> Strip(WrittenName),
     cv_path |-> Strip(call.mapping),
     confidence |-> FullConfidence]

\* C12: an accepted record_user_correction adds exactly one observation, of
\* the (trimmed) domain, field name and corrected path with confidence 1.0,
\* whatever the suggested path and the original confidence were.
C12_CorrectionStoredAtFull ==
    [][(Wrote' /\ op' = "record_user_correction" /\ ret'.exc = "")
          => store' = Append(store, CorrectionRow')]_vars

\* a correction whose suggested path and original confidence differ from what
\* is stored has been accepted
C12_Witness ==
    /\ Wrote /\ op = "record_user_correction" /\ ret.exc = ""
    /\ call.suggested_mapping = Path_phone /\ call.confidence = 30
    /\ store[Len(store)] = CorrectionRow
    /\ store[Len(store)].cv_path = Path_email

\* improve_field_classification has just returned
Improves == pc = "answered" /\ op = "improve_field_classification"

\* the corrections recorded for the domain of the call
CorrectionsOf == Get(feedback_data, call.domain, <<>>)

\* all that was ever recorded are corrections of the call's domain and
\* field, one or more, all to the same path, and all were accepted
OnlyCorrectionsOfField ==
    /\ DOMAIN feedback_data = {call.domain}
    /\ store # <<>>
    /\ Len(store) = Len(CorrectionsOf)
    /\ \A i \in DOMAIN CorrectionsOf :
          /\ CorrectionsOf[i].field_name = Get(call.field_info, "name", <<>>)
          /\ CorrectionsOf[i].correct_mapping = CorrectionsOf[1].correct_mapping

\* C13: after one or more corrections to one path for a field of a domain,
\* and no other observation, improve_field_classification for that domain
\* and field returns that path with confidence exactly 1.0.
C13_CorrectedFieldReturnsPath ==
    (Improves /\ OnlyCorrectionsOfField)
        => ret.value = Improved(CorrectionsOf[1].correct_mapping, One)

\* C14: the confidence improve_field_classification returns lies in [0, 1].
C14_ImprovedConfidenceInUnit ==
    Improves => RatLeq(Zero, ret.value.confidence) /\ RatLeq(ret.value.confidence, One)

\* the fuzzy branch has returned a confidence below 1 from an observation
\* that was written with a confidence above 1
C14_Witness ==
    /\ Improves /\ call.field_info = Info_tel
    /\ ret.value = Improved(Path_phone, Rat(3, 4))
    /\ \E i \in DOMAIN store : store[i].field_name = <<"w","o","r","k">> /\ store[i].confidence = FullConfidence

\* the field name the lookup compares
LookedUpName == Lower(Get(call.field_info, "name", <<>>))

\* the positions of the learned mappings whose name is the field's
ExactMatches == {i \in DOMAIN learned_mappings : Lower(learned_mappings[i].field_name) = LookedUpName}

\* the first of them in retrieval order
FirstExact == CHOOSE i \in ExactMatches : \A j \in ExactMatches : i <= j

\* C15: when a learned mapping of the domain has the field's name, compared
\* case-insensitively, the call returns the path of the first such mapping
\* with confidence min(1.2 x its average confidence, 1.0), which is at least
\* that average; the similarity scores play no part.
C15_ExactMatchBoosted ==
    (Improves /\ ExactMatches # {})
        => /\ ret.value = Improved(learned_mappings[FirstExact].cv_path,
                                   RatMin(RatMul(learned_mappings[FirstExact].confidence, Rat(6, 5)), One))
           /\ RatLeq(learned_mappings[FirstExact].confidence, ret.value.confidence)

\* an exact match on a name that differs in case has been boosted from 0.6 to
\* 0.72, where the similarity branch would have returned 0.6
C15_Witness ==
    /\ Improves /\ call.field_info = Info_Email
    /\ learned_mappings # <<>> /\ learned_mappings[1].field_name = <<"e","m","a","i","l">>
    /\ learned_mappings[1].confidence = Rat(3, 5)
    /\ ret.value = Improved(Path_email, Rat(18, 25))

\* an exact match at the cap: 1.2 x 1.0 is returned as 1.0
C15_WitnessCapped ==
    /\ Improves /\ call.field_info = Info_email2
    /\ ExactMatches # {} /\ learned_mappings[FirstExact].confidence = One
    /\ ret.value.confidence = One

\* the similarity score of the field of the call against learned mapping i
ScoreOf(i) == _calculate_similarity_score(call.field_info, learned_mappings[i])

\* the positions whose score is above the floor of 0.3
AboveFloor(scores) == {i \in DOMAIN scores : RatLess(SimilarityFloor, scores[i])}

\* the earliest of the positions of S with the highest score
Closest(scores, S) ==
    CHOOSE i \in S :
        \A j \in S : RatLess(scores[j], scores[i]) \/ (scores[j] = scores[i] /\ i <= j)

\* the answer of the similarity branch for these scores
FuzzyAnswer(scores, S) ==
    IF S = {}
    THEN Improved(None, Zero)
    ELSE Improved(learned_mappings[Closest(scores, S)].cv_path,
                  RatMul(learned_mappings[Closest(scores, S)].confidence,
                         scores[Closest(scores, S)]))

\* C16: without an exact match the call returns the path of the learned
\* mapping with the highest similarity score above 0.3, the earliest in
\* retrieval order among equal scores, with confidence = its average
\* confidence x the score; and (None, 0.0) when no mapping scores above 0.3.
C16_FuzzyMatchSelected ==
    (Improves /\ ExactMatches = {})
        => LET scores == [i \in DOMAIN learned_mappings |-> ScoreOf(i)]
           IN  ret.value = FuzzyAnswer(scores, AboveFloor(scores))

\* two learned mappings with different paths score the same, 0.75, and the
\* earlier one has been returned
C16_Witness ==
    /\ Improves /\ call.field_info = Info_work_email /\ ExactMatches = {}
    /\ Len(learned_mappings) >= 2
    /\ ScoreOf(1) = Rat(3, 4) /\ ScoreOf(2) = Rat(3, 4)
    /\ learned_mappings[1].cv_path # learned_mappings[2].cv_path
    /\ ret.value = Improved(learned_mappings[1].cv_path, RatMul(learned_mappings[1].confidence, Rat(3, 4)))

\* learned mappings exist, none scores above 0.3, and (None, 0.0) came back
C16_WitnessNone ==
    /\ Improves /\ learned_mappings # <<>> /\ ExactMatches = {}
    /\ \A i \in DOMAIN learned_mappings : RatLeq(ScoreOf(i), SimilarityFloor)
    /\ ret.value = Improved(None, Zero)

\* C18: the store is append-only: an accepted record_user_correction,
\* record_successfull_fill or learn_field_mapping adds exactly one observation
\* after those the store holds, and no call changes or removes an
\* observation; a rejected write and a read leave the store as it is.
C18_StoreAppendOnly ==
    [][IF Wrote' /\ ret'.exc = ""
       THEN Len(store') = Len(store) + 1 /\ SubSeq(store', 1, Len(store)) = store
       ELSE store' = store]_vars

\* a fill has been accepted on a store that held observations
C18_Witness ==
    /\ Wrote /\ op = "record_successfull_fill" /\ ret.exc = ""
    /\ Len(store) >= 2
    /\ store[Len(store)].domain = Strip(call.domain)

\* what improve_field_classification may return for each field when
\* get_learned_mappings may return any of retrievals
AnswersFor(retrievals) ==
    [f \in QueryFields |-> {improve_field_classification(learned, f) : learned \in retrievals}]

\* a step leaves what the two calls that read may return for domain d as it
\* was
SameAnswers(d) ==
    LET was == get_learned_mappings(store, d)
        now == get_learned_mappings(store', d)
    IN  now = was /\ AnswersFor(now) = AnswersFor(was)

\* C19 as stated: a write under domain A leaves the answers for every domain
\* B different from A unchanged
C19_OtherDomainsUnchanged ==
    [][Wrote' => \A d \in QueryDomains : d # call'.domain => SameAnswers(d)]_vars

\* C19: a write under domain A leaves what get_learned_mappings(B) and
\* improve_field_classification(B, field) return unchanged, for every field
\* and every domain B different from A with its surrounding whitespace
\* removed, which is the domain the observation is stored under.
C19_OtherStoredDomainsUnchanged ==
    [][Wrote' => \A d \in QueryDomains : d # Strip(call'.domain) => SameAnswers(d)]_vars

\* an observation has been accepted under one domain while the store held
\* observations of another domain that give that domain learned mappings
C19_Witness ==
    /\ Wrote /\ ret.exc = "" /\ Strip(call.domain) = Domain_acme
    /\ \E i \in DOMAIN store : store[i].domain = Domain_other
    /\ get_learned_mappings(store, Domain_other) # {<<>>}
    /\ get_learned_mappings(store, Domain_acme) # {<<>>}

\* get_learned_mappings has just returned
Retrieves == pc = "answered" /\ op = "get_learned_mappings"

\* the observations of the call's domain with this field name and path
Observations(name, path) ==
    {i \in DOMAIN store :
        store[i].domain = call.domain /\ store[i].field_name = name /\ store[i].cv_path = path}

\* the entry of the group of observation i
EntryOf(i, rows) ==
    [field_name |-> store[i].field_name,
     cv_path |-> store[i].cv_path,
     confidence |-> Rat(Sum(store, rows), FullConfidence * Cardinality(rows)),
     usage_count |-> Cardinality(rows)]

\* the average confidence of the rows is above 0.5
AverageAboveHalf(rows) == 2 * Sum(store, rows) > FullConfidence * Cardinality(rows)

\* the entries of the groups of the call's domain whose average is above 0.5
ExpectedEntries ==
    {EntryOf(i, Observations(store[i].field_name, store[i].cv_path)) :
        i \in {j \in DOMAIN store :
                  /\ store[j].domain = call.domain
                  /\ AverageAboveHalf(Observations(store[j].field_name, store[j].cv_path))}}

\* C20: get_learned_mappings(domain) returns one entry per (field_name,
\* cv_path) group of the domain's observations whose average confidence is
\* above 0.5, and no other, each with the group's average and its number of
\* observations, in the order of usage_count descending, then average
\* confidence descending.
C20_LearnedMappingsAggregated ==
    Retrieves =>
        /\ Range(ret.value) = ExpectedEntries
        /\ Len(ret.value) = Cardinality(ExpectedEntries)
        /\ \A i, j \in DOMAIN ret.value :
              i < j => \/ ret.value[i].usage_count > ret.value[j].usage_count
                       \/ /\ ret.value[i].usage_count = ret.value[j].usage_count
                          /\ RatLeq(ret.value[j].confidence, ret.value[i].confidence)

\* a group of two observations comes before a group of one with a higher
\* average
C20_Witness ==
    /\ Retrieves /\ Len(ret.value) = 2
    /\ ret.value[1].usage_count = 2 /\ ret.value[2].usage_count = 1
    /\ RatLess(ret.value[1].confidence, ret.value[2].confidence)

\* a group whose average is exactly 0.5 has been left out
C20_WitnessOmitted ==
    /\ Retrieves
    /\ \E i \in DOMAIN store :
          /\ store[i].domain = call.domain
          /\ 2 * Sum(store, Observations(store[i].field_name, store[i].cv_path))
                = FullConfidence * Cardinality(Observations(store[i].field_name, store[i].cv_path))
          /\ \A k \in DOMAIN ret.value : ret.value[k].field_name # store[i].field_name

-----------------------------------------------------------------------------
(* Concurrent requests, on ConcurrentSpec *)

\* the requests whose call has returned without an exception
Returned == {r \in DOMAIN requests : requests[r].pc = "returned"}

\* the requests whose call has ended
Ended == {r \in DOMAIN requests : requests[r].pc \in {"returned", "raised"}}

\* the store holds the row of every request of rs exactly once, and no other
HoldsExactly(rs) ==
    \E f \in [DOMAIN store -> rs] :
        /\ \A i, j \in DOMAIN store : i # j => f[i] # f[j]
        /\ \A r \in rs : \E i \in DOMAIN store : f[i] = r
        /\ \A i \in DOMAIN store : store[i] = RowOf(requests[f[i]])

\* the contents the store has had: the committed writes up to some point
CommittedPrefixes == {SubSeq(store, 1, k) : k \in 0..Len(store)}

C17_WitnessBusy ==
    /\ Ended = DOMAIN requests
    /\ \E r \in DOMAIN requests : requests[r].exc = "DatabaseError"
    /\ Len(store) = Cardinality(Returned) /\ store # <<>>

-----------------------------------------------------------------------------
(* The same call made twice on one FormDetector, beside a database that
   holds learned observations.  The detector has no reference to the
   database; its methods read self.classification_patterns,
   self.common_transforms and self.transforms and assign none of them. *)

\* a store with observations
SampleStore ==
    <<Row(Domain_acme, <<"e","m","a","i","l">>, Path_email, 60),
      Row(Domain_acme, <<"e","m","a","i","l","2">>, Path_email, CorrectionConfidence)>>

RepeatInit ==
    /\ pc = "ready"
    /\ ret = <<>>
    /\ first = <<>>
    /\ detector = Tables
    /\ store = SampleStore
    /\ feedback_data = <<>> /\ call = <<>> /\ learned_mappings = <<>>
    /\ requests = <<>> /\ write_lock = 0
    /\ NoFeedback
    /\ Arguments

\* the second call has ended
Repeated(value) ==
    /\ pc' = "repeated"
    /\ first' = ret
    /\ ret' = value
    /\ UNCHANGED <<op, cv_data, form_fields, cv_path, transform_function, field, detector,
                   learning_vars>>

AgainGenerateFieldMapping ==
    /\ pc = "done" /\ op = "generate_field_mapping"
    /\ Repeated(generate_field_mapping(cv_data, form_fields))

AgainGenerateMappings ==
    /\ pc = "done" /\ op = "generate_mappings"
    /\ Repeated(generate_mappings(cv_data, form_fields))

AgainClassifyFields ==
    /\ pc = "done" /\ op = "classify_fields"
    /\ Repeated(classify_fields(form_fields))

AgainClassifySingleField ==
    /\ pc = "done" /\ op = "_classify_single_field"
    /\ Repeated(Classify(field))

AgainExtractCvValue ==
    /\ pc = "done" /\ op = "_extract_cv_value"
    /\ Repeated(Extract(cv_data, cv_path, transform_function))

RepeatNext ==
    \/ CallGenerateFieldMapping
    \/ CallGenerateMappings
    \/ CallClassifyFields
    \/ CallClassifySingleField
    \/ CallExtractCvValue
    \/ AgainGenerateFieldMapping
    \/ AgainGenerateMappings
    \/ AgainClassifyFields
    \/ AgainClassifySingleField
    \/ AgainExtractCvValue

RepeatSpec == RepeatInit /\ [][RepeatNext]_vars

-----------------------------------------------------------------------------
(* Direct calls of the detector's helpers: _calculate_pattern_confidence on
   a text and the rules of one family, and the registered transforms on a
   value. *)

\* the words the rules of a family name without any other syntax
TriggerWords ==
    [p \in PatternPaths |->
        CASE p = <<"p","e","r","s","o","n","a","l","_","i","n","f","o",".","f","u","l","l","_","n","a","m","e">> -> {<<"n","a","m","e">>}
          [] p = <<"p","e","r","s","o","n","a","l","_","i","n","f","o",".","f","i","r","s","t","_","n","a","m","e">> -> {<<"f","n","a","m","e">>}
          [] p = <<"p","e","r","s","o","n","a","l","_","i","n","f","o",".","l","a","s","t","_","n","a","m","e">> -> {<<"l","n","a","m","e">>, <<"s","u","r","n","a","m","e">>}
          [] p = <<"p","e","r","s","o","n","a","l","_","i","n","f","o",".","e","m","a","i","l">> -> {<<"e","m","a","i","l">>}
          [] p = <<"p","e","r","s","o","n","a","l","_","i","n","f","o",".","p","h","o","n","e">> ->
                {<<"p","h","o","n","e">>, <<"c","e","l">>, <<"t","e","l">>, <<"m","o","b","i","l","e">>, <<"c","e","l","l">>, <<"c","o","n","t","a","c","t">>}
          [] p = <<"p","e","r","s","o","n","a","l","_","i","n","f","o",".","a","d","d","r","e","s","s">> -> {<<"a","d","d","r","e","s","s">>, <<"s","t","r","e","e","t">>, <<"l","o","c","a","t","i","o","n">>}
          [] p = <<"p","e","r","s","o","n","a","l","_","i","n","f","o",".","c","o","u","n","t","r","y">> -> {<<"c","o","u","n","t","r","y">>, <<"n","a","t","i","o","n">>}
          [] p = <<"e","x","p","e","r","i","e","n","c","e","[","0","]",".","c","o","m","p","a","n","y">> ->
                {<<"c","o","m","p","a","n","y">>, <<"o","r","g","a","n","i","z","a","t","i","o","n">>, <<"e","m","p","l","o","y","e","r">>, <<"w","o","r","k","p","l","a","c","e">>}
          [] p = <<"e","x","p","e","r","i","e","n","c","e","[","0","]",".","j","o","b","_","t","i","t","l","e">> -> {<<"p","o","s","i","t","i","o","n">>, <<"t","i","t","l","e">>, <<"r","o","l","e">>}
          [] p = <<"e","d","u","c","a","t","i","o","n","[","0","]",".","i","n","s","t","i","t","u","t","i","o","n">> ->
                {<<"s","c","h","o","o","l">>, <<"u","n","i","v","e","r","s","i","t","y">>, <<"c","o","l","l","e","g","e">>, <<"i","n","s","t","i","t","u","t","i","o","n">>}
          [] p = <<"e","d","u","c","a","t","i","o","n","[","0","]",".","d","e","g","r","e","e">> -> {<<"d","e","g","r","e","e">>}
          [] p = <<"s","k","i","l","l","s","_","t","e","x","t">> -> {<<"s","k","i","l","l","s">>, <<"s","k","i","l","l">>, <<"c","o","m","p","e","t","e","n","c">>, <<"a","b","i","l","i","t","i","e","s">>}
          [] OTHER -> {<<"m","o","t","i","v","a","t","i","o","n">>, <<"m","e","s","s","a","g","e">>}]

\* the texts of the direct calls
Texts ==
    {<<>>, <<" ">>, <<"e","m","a","i","l">>, <<" ","E","m","a","i","l"," ">>, <<"x","e","m","a","i","l","x">>, <<"m","y"," ","e","m","a","i","l"," ","h","e","r","e">>, <<"E","-","M","a","i","l">>,
     <<"c","e","l","l">>, <<"t","e","l","e","p","h","o","n","e">>, <<"n","a","m","e">>, <<"j","o","b"," ","t","i","t","l","e">>, <<"p","h","o","n","e"," ","n","u","m","b","e","r">>, <<"z","z","z">>}

\* the values the transforms are called on
TransformData ==
    {SkillsList,
     PyList(<<PyDict(<<<<"i","t","e","m","s">>>>, <<PyList(<<PyInt(1)>>)>>)>>),
     PyList(<<PyDict(<<<<"i","t","e","m","s">>>>, <<PyStr(<<"a","b","c">>)>>)>>),
     PyList(<<PyDict(<<<<"i","t","e","m","s">>>>, <<PyInt(5)>>)>>),
     PyList(<<PyDict(<<<<"i","t","e","m","s">>>>, <<PyNone>>), PyDict(<<<<"n","a","m","e">>>>, <<PyStr(<<"x">>)>>), PyStr(<<"x">>)>>),
     PyList(<<>>),
     PyDict(<<>>, <<>>),
     PyDict(<<<<"j","o","b","_","t","i","t","l","e">>, <<"c","o","m","p","a","n","y">>>>, <<PyStr(<<"D","e","v">>), PyStr(<<"A","c","m","e">>)>>),
     PyDict(<<<<"j","o","b","_","t","i","t","l","e">>, <<"c","o","m","p","a","n","y">>>>, <<PyNone, PyInt(7)>>),
     PyDict(<<<<"d","e","g","r","e","e">>, <<"i","n","s","t","i","t","u","t","i","o","n">>>>, <<PyStr(<<"B","S","c">>), PyStr(<<"M","I","T">>)>>),
     PyDict(<<<<"d","e","g","r","e","e">>>>, <<PyStr(<<"B","S","c">>)>>),
     PyStr(<<"x">>), PyInt(5), PyNone}

\* the rules of the family of this path
PatternsOf(path) ==
    classification_patterns[CHOOSE i \in DOMAIN classification_patterns :
                                classification_patterns[i].path = path].patterns

\* the fields and the learned mappings of the direct
\* _calculate_similarity_score calls
Info_blank == [name |-> <<>>, type |-> <<"t","e","x","t">>]
Info_email_label == [name |-> <<"e","m","a","i","l">>, label |-> <<"W","o","r","k"," ","E","m","a","i","l">>]
SimilarityFields ==
    {Info_email2, Info_Email, Info_work_email, Info_tel, Info_zip, Info_nameless,
     Info_blank, Info_email_label}

LearnedAs(field_name) ==
    [field_name |-> field_name, cv_path |-> Path_email, confidence |-> Rat(3, 5),
     usage_count |-> 1]
SimilarityMappings ==
    {LearnedAs(<<"e","m","a","i","l">>), LearnedAs(<<"E","m","a","i","l">>), LearnedAs(<<"t","e","l">>), LearnedAs(<<"m","a","i","l">>),
     LearnedAs(<<"w","o","r","k"," ","e","m","a","i","l">>), LearnedAs(<<"w","o","r","k"," ","p","h","o","n","e"," ","e","m","a","i","l">>), LearnedAs(<<" ">>),
     LearnedAs(<<"t","e","l"," ","z","i","p"," ","f","a","x">>), LearnedAs(<<"t","e","l"," ","f","a","x">>)}

HelperInit ==
    /\ pc = "ready"
    /\ ret = <<>>
    /\ first = <<>>
    /\ detector = Tables
    /\ cv_data = NoRecord /\ form_fields = <<>> /\ field = NoField
    /\ cv_path = <<>> /\ transform_function = None
    /\ store = <<>> /\ feedback_data = <<>> /\ learned_mappings = <<>>
    /\ requests = <<>> /\ write_lock = 0
    /\ NoFeedback
    /\ \/ /\ op = "_calculate_pattern_confidence"
          /\ call \in [text : Texts, family : PatternPaths]
       \/ /\ op \in {"_join_skills", "_format_experience", "_format_education"}
          /\ call \in [data : TransformData]
       \/ /\ op = "_calculate_similarity_score"
          /\ call \in [field_info : SimilarityFields, learned_mapping : SimilarityMappings]

\* the tabulated results of _calculate_pattern_confidence
confidence_memo ==
    [c \in [text : Texts, family : PatternPaths] |->
        _calculate_pattern_confidence(c.text, PatternsOf(c.family))]

CallCalculatePatternConfidence ==
    /\ pc = "ready" /\ op = "_calculate_pattern_confidence"
    /\ Finish(Return(confidence_memo[call]))

CallJoinSkills ==
    /\ pc = "ready" /\ op = "_join_skills"
    /\ Finish(_join_skills(call.data))

CallFormatExperience ==
    /\ pc = "ready" /\ op = "_format_experience"
    /\ Finish(_format_experience(call.data))

CallFormatEducation ==
    /\ pc = "ready" /\ op = "_format_education"
    /\ Finish(_format_education(call.data))

CallCalculateSimilarityScore ==
    /\ pc = "ready" /\ op = "_calculate_similarity_score"
    /\ Finish(Return(_calculate_similarity_score(call.field_info, call.learned_mapping)))

HelperNext ==
    \/ CallCalculateSimilarityScore
    \/ CallCalculatePatternConfidence
    \/ CallJoinSkills
    \/ CallFormatExperience
    \/ CallFormatEducation

HelperSpec == HelperInit /\ [][HelperNext]_vars


-----------------------------------------------------------------------------
(* The feedback buffers of the learning engine.  learning_service.Learning
   keeps feedback_data as a defaultdict(list) that record_user_correction
   appends to; llm_service.Learning(config_service, max_feedback_size) keeps
   it as a defaultdict of deque(maxlen=max_feedback_size), loaded from and
   persisted to ConfigService.feedback_store.  One engine serves a behaviour:
   op says of which class. *)

MaxFeedbackSize == 2

\* the capacities llm_service.Learning is created with
FeedbackSizes == 1..MaxFeedbackSize

Feedback_first == Feedback(Domain_acme, Info_email2, Path_phone, Path_email, 30)
Feedback_second == Feedback(Domain_acme, Info_nameless, Path_email, Path_phone, 30)
Feedback_third == Feedback(Domain_other, Info_email2, None, Path_email, 90)

FeedbackEntries == {Feedback_first, Feedback_second, Feedback_third}
FeedbackDomains == {Domain_acme, Domain_other}

\* what ConfigService.get_feedback_data() holds when the engine is created
PersistedFeedback ==
    {<<>>,
     (Domain_acme :> <<Feedback_first>>),
     (Domain_acme :> <<Feedback_first, Feedback_second, Feedback_third>>)}

\* the content of a deque(maxlen=maxlen) after entries went in one by one:
\* the oldest are discarded
Bounded(entries, maxlen) ==
    IF Len(entries) <= maxlen THEN entries
    ELSE SubSeq(entries, Len(entries) - maxlen + 1, Len(entries))

\* llm_service.Learning._load_feedback_data
_load_feedback_data(persisted, maxlen) ==
    [d \in DOMAIN persisted |-> Bounded(persisted[d], maxlen)]

\* llm_service.Learning.save_feedback_data and _persist_feedback
save_feedback_data(feedback, persisted, maxlen, domain, entry) ==
    [feedback_data |->
        (domain :> Bounded(Append(Get(feedback, domain, <<>>), entry), maxlen)) @@ feedback,
     feedback_store |->
        (domain :> Bounded(Append(Get(feedback, domain, <<>>), entry), maxlen)) @@ persisted]

\* llm_service.Learning.get_feedback_data
get_feedback_data(feedback, domain) == Get(feedback, domain, <<>>)

FeedbackInit ==
    /\ pc = "ready"
    /\ ret = <<>>
    /\ first = <<>>
    /\ detector = Tables
    /\ cv_data = NoRecord /\ form_fields = <<>> /\ field = NoField
    /\ cv_path = <<>> /\ transform_function = None
    /\ store = <<>> /\ call = <<>> /\ learned_mappings = <<>>
    /\ requests = <<>> /\ write_lock = 0
    /\ max_feedback_size \in FeedbackSizes
    /\ \/ /\ op = "record_user_correction"
          /\ feedback_store = <<>>
          /\ feedback_data = <<>>
       \/ /\ op = "save_feedback_data"
          /\ feedback_store \in PersistedFeedback
          /\ feedback_data = _load_feedback_data(feedback_store, max_feedback_size)

\* the engine is an llm_service.Learning
BoundedEngine == op \in {"save_feedback_data", "get_feedback_data"}

SaveFeedbackData ==
    /\ BoundedEngine
    /\ \E d \in FeedbackDomains, e \in FeedbackEntries :
          /\ pc' = "done"
          /\ op' = "save_feedback_data"
          /\ call' = [domain |-> d, feedback |-> e]
          /\ ret' = Return(None)
          /\ feedback_data' =
                save_feedback_data(feedback_data, feedback_store, max_feedback_size, d, e).feedback_data
          /\ feedback_store' =
                save_feedback_data(feedback_data, feedback_store, max_feedback_size, d, e).feedback_store
    /\ UNCHANGED <<detector_vars, store, learned_mappings, requests, write_lock,
                   max_feedback_size>>

GetFeedbackData ==
    /\ BoundedEngine
    /\ \E d \in FeedbackDomains :
          /\ pc' = "done"
          /\ op' = "get_feedback_data"
          /\ call' = [domain |-> d, feedback |-> None]
          /\ ret' = Return(get_feedback_data(feedback_data, d))
    /\ UNCHANGED <<detector_vars, store, feedback_data, learned_mappings, requests,
                   write_lock, engine_vars>>

\* record_user_correction on a learning_service.Learning
AppendFeedback ==
    /\ op = "record_user_correction"
    /\ RecordUserCorrection

FeedbackNext ==
    \/ SaveFeedbackData
    \/ GetFeedbackData
    \/ AppendFeedback

FeedbackSpec == FeedbackInit /\ [][FeedbackNext]_vars

-----------------------------------------------------------------------------
(* The learning engine on a form whose field email2 is filled as phone and
   corrected to email: one field name learned under two paths. *)

RepeatedFills ==
    {Call(Domain_acme, [name |-> <<"e","m","a","i","l","2">>], None, Path_phone, 60),
     Call(Domain_acme, [name |-> <<"e","m","a","i","l","2">>], None, Path_phone, 90)}

FillAgain ==
    /\ pc # "answered"
    /\ Len(store) < MaxObservations
    /\ \E c \in RepeatedFills :
          Written("record_successfull_fill", c,
                  record_successfull_fill(feedback_data, store, c.domain, c.field_info.name,
                                          c.mapping, c.confidence))

RankNext ==
    \/ RecordUserCorrection
    \/ FillAgain
    \/ GetLearnedMappings
    \/ ImproveFieldClassification

RankSpec == LearnInit /\ [][RankNext]_vars
-----------------------------------------------------------------------------
(* Further claims on the learning engine (LearnSpec) and the detector (Spec) *)

\* the confidence of the call, brought into [0, 1]
ClampedConfidence ==
    IF call.confidence < 0 THEN 0
    ELSE IF call.confidence > FullConfidence THEN FullConfidence
    ELSE call.confidence

\* the observation an accepted fill stores
FillRow ==
    [domain |-> Strip(call.domain),
     field_name |-> Strip(WrittenName),
     cv_path |-> Strip(call.mapping),
     confidence |-> ClampedConfidence]

\* C21: an accepted record_successfull_fill adds exactly one observation, of
\* the (trimmed) domain, field name and path, whose confidence is the achieved
\* confidence clamped into [0, 1]: 0 for a value below 0, 1 for a value above
\* 1, the value itself otherwise; every stored observation has a confidence
\* in [0, 1].
C21_FillStoredClamped ==
    [][/\ (Wrote' /\ op' = "record_successfull_fill" /\ ret'.exc = "")
            => store' = Append(store, FillRow')
       /\ \A i \in DOMAIN store' : store'[i].confidence \in 0..FullConfidence]_vars

\* fills with confidences 1.5, -0.2 and 0.6 have been stored as 1.0, 0.0 and
\* 0.6
C21_Witness ==
    /\ Wrote /\ op = "record_successfull_fill" /\ ret.exc = ""
    /\ call.confidence = 60 /\ store[Len(store)] = FillRow
    /\ \E i, j \in DOMAIN store :
          /\ store[i].confidence = 0
          /\ store[j].confidence = FullConfidence

RECURSIVE Resolved(_, _, _)
Resolved(node, parts, i) ==
    IF i > Len(parts) THEN node
    ELSE IF IsDigitStr(parts[i])
    THEN IF node.kind = "list" /\ ParseInt(parts[i]) < Len(node.kids)
         THEN Resolved(node.kids[ParseInt(parts[i]) + 1], parts, i + 1)
         ELSE PyNone
    ELSE IF node.kind = "dict" /\ KeyIndex(node, parts[i]) # 0
         THEN Resolved(node.kids[KeyIndex(node, parts[i])], parts, i + 1)
         ELSE PyNone

\* the value a direct _extract_cv_value call resolves
ResolvedValue == Resolved(cv_data, PathParts(cv_path), 1)

\* the call resolves a list or a mapping and was given a transform name
TransformsComposite ==
    /\ Done("_extract_cv_value")
    /\ transform_function \notin {None, <<>>}
    /\ ResolvedValue.kind \in {"list", "dict"}

\* what the registered transform of that name does on the value
TransformOutcome(name, value) ==
    CASE name = <<"j","o","i","n","_","s","k","i","l","l","s">> -> _join_skills(value)
      [] name = <<"f","o","r","m","a","t","_","e","x","p","e","r","i","e","n","c","e">> -> _format_experience(value)
      [] name = <<"f","o","r","m","a","t","_","e","d","u","c","a","t","i","o","n">> -> _format_education(value)

\* C23: when _extract_cv_value resolves a list or a mapping and a transform
\* name is given, the call does not raise: a registered transform that raises
\* gives the empty string, one that returns gives what it returned, and an
\* unregistered name gives str(value) (the empty string for an empty value).
C23_TransformFailureGivesEmpty ==
    TransformsComposite =>
        /\ ret.exc = ""
        /\ IF transform_function \in TransformNames
           THEN ret.value = (IF TransformOutcome(transform_function, ResolvedValue).exc # ""
                             THEN <<>>
                             ELSE TransformOutcome(transform_function, ResolvedValue).value)
           ELSE ret.value = (IF Truthy(ResolvedValue) THEN Str(ResolvedValue) ELSE <<>>)

\* join_skills has raised on a category whose items are numbers, and the
\* extraction returned the empty string
C23_Witness ==
    /\ TransformsComposite
    /\ cv_data = Record_badskills /\ transform_function = <<"j","o","i","n","_","s","k","i","l","l","s">>
    /\ _join_skills(ResolvedValue).exc = "TypeError"
    /\ ret = Return(<<>>)

\* an unregistered transform name has given the value as str() prints it
C23_WitnessUnregistered ==
    /\ TransformsComposite
    /\ transform_function \notin TransformNames
    /\ Truthy(ResolvedValue) /\ ret = Return(Str(ResolvedValue))


\* the rules of the called family that match the called text
MatchingRules ==
    {i \in DOMAIN PatternsOf(call.family) :
        Search(PatternsOf(call.family)[i], call.text)[1] # 0}

\* the tier of one matching rule: the whole trimmed text, a separate word, or
\* a mere substring
TierOf(i) ==
    LET matched == Group0(call.text, Search(PatternsOf(call.family)[i], call.text))
    IN  IF Lower(matched) = Lower(Strip(call.text)) THEN FullConfidence
        ELSE IF WordSearch(matched, call.text) THEN WordConfidence
        ELSE BaseConfidence

\* C24: _calculate_pattern_confidence returns 0.0 when the text is empty or
\* no rule of the family matches, otherwise the greatest tier (1.0, 0.9, 0.8)
\* over the matching rules; the result is one of 0.0, 0.8, 0.9, 1.0, and a
\* text that is exactly one of the family's trigger words gets exactly 1.0.
C24_PatternConfidenceTiers ==
    Done("_calculate_pattern_confidence") =>
        /\ ret.exc = ""
        /\ ret.value \in {0, BaseConfidence, WordConfidence, FullConfidence}
        /\ IF call.text = <<>> \/ MatchingRules = {}
           THEN ret.value = 0
           ELSE /\ \E i \in MatchingRules : ret.value = TierOf(i)
                /\ \A i \in MatchingRules : ret.value >= TierOf(i)
        /\ call.text \in TriggerWords[call.family] => ret.value = FullConfidence

\* the value of a transform's argument is well formed for that transform
WellFormedSkills(data) ==
    /\ data.kind = "list"
    /\ \A i \in DOMAIN data.kids :
        /\ data.kids[i].kind = "dict"
        /\ KeyIndex(data.kids[i], <<"i","t","e","m","s">>) # 0
        /\ LET items == data.kids[i].kids[KeyIndex(data.kids[i], <<"i","t","e","m","s">>)]
           IN  items.kind = "list" /\ \A j \in DOMAIN items.kids : items.kids[j].kind = "str"

\* C26: each registered transform called directly returns a string and never
\* raises, whatever its input: a wrong container type, a category whose items
\* are not a list of strings, missing or null keys.
C26_TransformsTotal ==
    (pc = "done" /\ op \in {"_join_skills", "_format_experience", "_format_education"}) =>
        /\ ret.exc = ""
        /\ (op = "_join_skills" /\ ~WellFormedSkills(call.data)) => ret.value = <<>>

\* the positions of the classified fields that carry the name
ClassifiedAt(name) ==
    {i \in DOMAIN form_fields : NameOf(form_fields[i]) = name /\ Classifies(form_fields[i])}

\* the last of them in input order
LastClassified(name) ==
    CHOOSE i \in ClassifiedAt(name) : \A k \in ClassifiedAt(name) : k <= i

\* the positions of the fields that have a value, in input order
RECURSIVE ValuedPositions(_)
ValuedPositions(i) ==
    IF i > Len(form_fields) THEN <<>>
    ELSE (IF HasValue(cv_data, form_fields[i]) THEN <<i>> ELSE <<>>)
         \o ValuedPositions(i + 1)

\* C25: when more than one field of a name classifies, confidence_scores
\* holds for the name the confidence of the last such field in input order,
\* and mappings has one entry per classified field with a value, in input
\* order.
C25_DuplicateNamesLastSeen ==
    Mapped =>
        \A name \in ClassifiedNames(form_fields) :
            Cardinality(ClassifiedAt(name)) > 1 =>
                /\ ret.confidence_scores[name] =
                       ConfidenceOf(form_fields[LastClassified(name)])
                /\ Len(ret.mappings) = Len(ValuedPositions(1))
                /\ \A j \in DOMAIN ret.mappings :
                      ret.mappings[j] =
                          ExpectedEntry(cv_data, form_fields[ValuedPositions(1)[j]])

\* a report for two classified fields named q1 of confidences 0.9 and 0.8,
\* both with a value: the score of q1 is that of the second, and mappings has
\* the two entries in input order
C25_Witness ==
    /\ Mapped
    /\ Len(form_fields) >= 2
    /\ form_fields[1] = Field_q1_email /\ form_fields[2] = Field_q1_emails
    /\ ConfidenceOf(form_fields[1]) = WordConfidence
    /\ ret.confidence_scores[<<"q","1">>] = BaseConfidence
    /\ Len(ret.mappings) >= 2
    /\ ret.mappings[1].confidence = WordConfidence
    /\ ret.mappings[2].confidence = BaseConfidence

\* the call that has just ended recorded feedback
Recording == pc' = "done" /\ op' \in {"record_user_correction", "save_feedback_data"}

\* the entry it recorded
RecordedEntry ==
    IF op' = "save_feedback_data" THEN call'.feedback
    ELSE Feedback(call'.domain, call'.field_info, call'.suggested_mapping,
                  call'.mapping, call'.confidence)

\* C27: after every feedback recording (record_user_correction,
\* save_feedback_data) each domain's buffer holds at most max_feedback_size
\* entries; the buffer of the recording's domain is what it was with the new
\* entry last and the oldest entries evicted, and the buffers of the other
\* domains are as they were.
C27_FeedbackBufferBounded ==
    [][Recording =>
        /\ \A d \in DOMAIN feedback_data' : Len(feedback_data'[d]) <= max_feedback_size
        /\ call'.domain \in DOMAIN feedback_data'
        /\ feedback_data'[call'.domain] =
              Bounded(Append(Get(feedback_data, call'.domain, <<>>), RecordedEntry),
                      max_feedback_size)
        /\ \A d \in DOMAIN feedback_data' \ {call'.domain} :
              d \in DOMAIN feedback_data /\ feedback_data'[d] = feedback_data[d]]_vars

\* the word sets of the called field and learned mapping, and their overlap
FieldWords == Words(field_text(call.field_info))
MappingWords == Words(Lower(call.learned_mapping.field_name))
Overlap == Jaccard(FieldWords, MappingWords)

\* C28: _calculate_similarity_score is 0.0 when either word set is empty and
\* min(1.5 x Jaccard, 1.0) otherwise: a positive overlap always meets the
\* boost condition, and the score is above the 0.3 floor exactly when the
\* overlap is above 0.2.
C28_SimilarityBoostAlwaysApplies ==
    Done("_calculate_similarity_score") =>
        IF FieldWords = {} \/ MappingWords = {}
        THEN ret.value = Zero
        ELSE /\ ret.value = RatMin(Times15(Overlap), One)
             /\ RatLess(Zero, Overlap) =>
                    Boosted(field_text(call.field_info),
                            Lower(call.learned_mapping.field_name), MappingWords)
             /\ RatLess(SimilarityFloor, ret.value) <=> RatLess(Rat(1, 5), Overlap)

\* the learned mappings retrieved for the call that carry the field's name
SameName ==
    {m \in Range(learned_mappings) : Lower(m.field_name) = LookedUpName}

\* m is first under ORDER BY usage_count DESC, avg_confidence DESC
ComesFirst(m, S) ==
    \A other \in S :
        \/ m.usage_count > other.usage_count
        \/ m.usage_count = other.usage_count /\ RatLeq(other.confidence, m.confidence)

\* C29: when the learned mappings of the domain hold the field's name with
\* different paths, improve_field_classification returns the path of the one
\* that is first in retrieval order: the greatest usage_count, and among
\* those the highest average confidence, whatever the averages of the others
\* and whichever was recorded last.
C29_ExactMatchByUsage ==
    (/\ pc = "answered" /\ op = "improve_field_classification"
     /\ \E a, b \in SameName : a.cv_path # b.cv_path)
        => \E m \in SameName :
              /\ ComesFirst(m, SameName)
              /\ ret.value = Improved(m.cv_path, Boost(m.confidence))

\* email2 was filled twice as phone at 0.6 and then corrected to email: the
\* answer is phone, of usage_count 2 and average 0.6, though email has the
\* average 1.0 and was recorded last
C29_Witness ==
    /\ pc = "answered" /\ op = "improve_field_classification"
    /\ Len(store) = 3
    /\ store[3].cv_path = Path_email /\ store[3].confidence = CorrectionConfidence
    /\ \E a, b \in SameName :
          /\ a.cv_path = Path_phone /\ a.usage_count = 2 /\ a.confidence = Rat(3, 5)
          /\ b.cv_path = Path_email /\ b.usage_count = 1 /\ b.confidence = One
    /\ ret.value = Improved(Path_phone, Rat(18, 25))

\* C30: a record_user_correction call rejected with a validation error (empty
\* domain or empty field name) leaves the learning engine as it was: neither
\* the observation store nor the feedback buffer gains an entry.
C30_RejectedCorrectionChangesNothing ==
    [][(/\ pc' = "done" /\ op' = "record_user_correction"
        /\ ret'.exc = "ValueError")
          => store' = store /\ feedback_data' = feedback_data]_vars
====
